---- MODULE Spec2Model ----
(***************************************************************************)
(* Model of the JSON-RPC dispatcher of the NCOG node SDK (class Provider)  *)
(* and of the value normalisation it applies to responses (utils.ts).      *)
(*                                                                         *)
(* JavaScript values are tagged records [t, v]:                            *)
(*   undefined, null, bool, num, str, arr, obj, and err for Error objects. *)
(* A string is the concatenation of its chunks: a literal of the source is *)
(* kept as one chunk, a wire (hex) string has one character per chunk.     *)
(* An object is the sequence of its <<key, value>> entries in insertion    *)
(* order (the order of Object.entries).  A thrown exception is the tagged  *)
(* value [t |-> "throw", v |-> <the error>].                               *)
(***************************************************************************)
EXTENDS Integers, Sequences, FiniteSets, TLC

----------------------------------------------------------------------------
(* Bounds of the model *)

MaxBatch == 2        \* longest list of calls handed to batchRpc
MaxMw == 2           \* middleware registered, request and response together
MaxInvocations == 2  \* invocations started over the life of the instance
MaxRequests == 2     \* sendRpc calls answered with an id on one Subscription
MaxRefused == 1      \* sendRpc calls made while the Subscription is not connected

----------------------------------------------------------------------------
(* JavaScript values *)

Undefined == [t |-> "undefined"]
Null == [t |-> "null"]
Bool(b) == [t |-> "bool", v |-> b]
Num(n) == [t |-> "num", v |-> n]
Str(s) == [t |-> "str", v |-> s]

\* a number too wide for Num: a natural given by its decimal digits (big), or
\* a number with a fraction, written whole.frac in decimal digits
Fraction(whole, frac) == [t |-> "num", whole |-> whole, frac |-> frac]
IsBig(x) == "big" \in DOMAIN x
IsFraction(x) == "frac" \in DOMAIN x
Arr(s) == [t |-> "arr", v |-> s]
Obj(s) == [t |-> "obj", v |-> s]
Throw(e) == [t |-> "throw", v |-> e]

IsThrow(x) == x.t = "throw"

\* new Error(message) and its subclasses, message given as chunks; code and
\* data are set by RpcError only
Err(name, message, code, data) ==
  [t |-> "err", name |-> name, message |-> Str(message), code |-> code, data |-> data]

\* JavaScript truthiness (ToBoolean)
Truthy(x) ==
  CASE x.t = "undefined" -> FALSE
    [] x.t = "null" -> FALSE
    [] x.t = "bool" -> x.v
    [] x.t = "num" -> IF IsBig(x) THEN TRUE
                      ELSE IF IsFraction(x)
                      THEN \E i \in 1..Len(x.whole \o x.frac) : (x.whole \o x.frac)[i] # 0
                      ELSE x.v # 0
    [] x.t = "str" -> x.v # <<>>
    [] OTHER -> TRUE

\* a || b
OrElse(a, b) == IF Truthy(a) THEN a ELSE b

\* typeof x === 'object'
TypeofObject(x) == x.t \in {"null", "arr", "obj", "err"}

RECURSIVE LastIndexOfKey(_, _, _)
LastIndexOfKey(entries, key, i) ==
  IF i = 0 THEN 0
  ELSE IF entries[i][1] = key THEN i
  ELSE LastIndexOfKey(entries, key, i - 1)

\* x.key (property read; undefined when x has no such property)
Get(x, key) ==
  IF x.t = "obj"
  THEN LET i == LastIndexOfKey(x.v, key, Len(x.v))
       IN IF i = 0 THEN Undefined ELSE x.v[i][2]
  ELSE IF x.t = "err" /\ key \in {"message", "code", "data", "name"}
  THEN x[key]
  ELSE Undefined

\* {...x, key: val}: replaces key in place when present, else appends it
Put(x, key, val) ==
  LET i == LastIndexOfKey(x.v, key, Len(x.v))
  IN IF i = 0 THEN Obj(Append(x.v, <<key, val>>))
     ELSE Obj([x.v EXCEPT ![i] = <<key, val>>])

----------------------------------------------------------------------------
(* utils.ts: hexadecimal wire strings *)

HexDigitChars == <<"0","1","2","3","4","5","6","7","8","9","a","b","c","d","e","f">>

UpperChars ==
  <<"A","B","C","D","E","F","G","H","I","J","K","L","M",
    "N","O","P","Q","R","S","T","U","V","W","X","Y","Z">>
LowerChars ==
  <<"a","b","c","d","e","f","g","h","i","j","k","l","m",
    "n","o","p","q","r","s","t","u","v","w","x","y","z">>

\* String.prototype.toLowerCase on one character
LowerChar(c) ==
  IF \E i \in 1..Len(UpperChars) : UpperChars[i] = c
  THEN LowerChars[CHOOSE i \in 1..Len(UpperChars) : UpperChars[i] = c]
  ELSE c

\* a variant that leaves the case of the letters alone
ToLowerCaseSkipped(s) == s

ToLowerCase(s) == [i \in 1..Len(s) |-> LowerChar(s[i])]

RECURSIVE TrimLeft(_)
TrimLeft(s) == IF s # <<>> /\ Head(s) = " " THEN TrimLeft(Tail(s)) ELSE s

RECURSIVE TrimRight(_)
TrimRight(s) ==
  IF s # <<>> /\ s[Len(s)] = " " THEN TrimRight(SubSeq(s, 1, Len(s) - 1)) ELSE s

\* String.prototype.trim
Trim(s) == TrimRight(TrimLeft(s))

\* s.startsWith('0x')
StartsWith0x(s) == Len(s) >= 2 /\ s[1] = "0" /\ s[2] = "x"

IsLowerHexDigit(c) == \E i \in 1..16 : HexDigitChars[i] = c
IsHexDigit(c) == IsLowerHexDigit(LowerChar(c))

HexDigitValue(c) == (CHOOSE i \in 1..16 : HexDigitChars[i] = LowerChar(c)) - 1

\* the digit values of a string of digits, most significant first, and back
DigitsOf(s) == [i \in 1..Len(s) |-> HexDigitValue(s[i])]
CharsOf(ds) == [i \in 1..Len(ds) |-> HexDigitChars[ds[i] + 1]]

(* BigInt: a natural number of any width is the sequence of its digit      *)
(* values in some base, most significant first and without leading zeros;  *)
(* zero is <<0>>.                                                          *)
RECURSIVE StripZeros(_)
StripZeros(ds) ==
  IF ds = <<>> THEN <<0>>
  ELSE IF Len(ds) > 1 /\ Head(ds) = 0 THEN StripZeros(Tail(ds))
  ELSE ds

Zeros(n) == [i \in 1..n |-> 0]

Front(ds) == SubSeq(ds, 1, Len(ds) - 1)

\* a + b + carry on digit sequences of one base, for a carry of 0 or 1: a
\* position receives a carry when some position below it produces one and all
\* positions in between pass it on
AddDigits(a, b, base, carry) ==
  LET n == IF Len(a) >= Len(b) THEN Len(a) ELSE Len(b)
      at(s, i) == IF i <= Len(s) THEN s[Len(s) + 1 - i] ELSE 0
      produces(j) == IF j = 0 THEN carry = 1 ELSE at(a, j) + at(b, j) >= base
      passes(k) == at(a, k) + at(b, k) = base - 1
      carried(i) ==
        IF \E j \in 0..(i - 1) : produces(j) /\ \A k \in (j + 1)..(i - 1) : passes(k)
        THEN 1 ELSE 0
  IN (IF carried(n + 1) = 1 THEN <<1>> ELSE <<>>)
       \o [p \in 1..n |-> (at(a, n + 1 - p) + at(b, n + 1 - p) + carried(n + 1 - p)) % base]

RECURSIVE DivDigits(_, _, _, _)
\* long division of a digit sequence by a small divisor: quotient and remainder
DivDigits(ds, base, d, carry) ==
  IF ds = <<>> THEN [q |-> <<>>, r |-> carry]
  ELSE LET cur == carry * base + Head(ds)
           rest == DivDigits(Tail(ds), base, d, cur % d)
       IN [q |-> <<cur \div d>> \o rest.q, r |-> rest.r]

RECURSIVE ConvertLimbs(_, _, _)
\* the digits in base `to` of the number whose digits in base `from` are ds
ConvertLimbs(ds, from, to) ==
  LET d == DivDigits(StripZeros(ds), from, to, 0)
  IN IF StripZeros(d.q) = <<0>> THEN <<d.r>>
     ELSE Append(ConvertLimbs(d.q, from, to), d.r)

\* digits are converted in groups (limbs): four decimal digits, three hex digits
LimbDigits(base) == IF base = 10 THEN 4 ELSE 3

\* the limbs of k digits each of a digit sequence, and back
Group(ds, k, base) ==
  LET pad == (k - (Len(ds) % k)) % k
      padded == Zeros(pad) \o ds
      limb(j) == LET part == SubSeq(padded, (j - 1) * k + 1, j * k)
                     val[i \in 0..k] == IF i = 0 THEN 0 ELSE val[i - 1] * base + part[i]
                 IN val[k]
  IN [j \in 1..(Len(padded) \div k) |-> limb(j)]

Expand(limbs, k, base) ==
  [i \in 1..(Len(limbs) * k) |->
     (limbs[((i - 1) \div k) + 1] \div (base ^ (k - 1 - ((i - 1) % k)))) % base]

\* a number's digits in another base (BigInt(hex).toString(10),
\* BigInt(dec).toString(16)), for the bases 10 and 16
ConvertBase(ds, from, to) ==
  LET kf == LimbDigits(from)
      kt == LimbDigits(to)
  IN StripZeros(Expand(ConvertLimbs(Group(ds, kf, from), from ^ kf, to ^ kt), kt, to))

\* the binary digits of a number given by its hex digits, and back
BitsOfHex(ds) ==
  StripZeros([i \in 1..(4 * Len(ds)) |->
                (ds[((i - 1) \div 4) + 1] \div (2 ^ (3 - ((i - 1) % 4)))) % 2])

HexOfBits(bits) == StripZeros(Group(bits, 4, 2))

\* bits + 1
IncrementBits(bits) ==
  IF \A i \in 1..Len(bits) : bits[i] = 1 THEN <<1>> \o Zeros(Len(bits))
  ELSE LET p == CHOOSE i \in 1..Len(bits) :
                  bits[i] = 0 /\ \A j \in (i + 1)..Len(bits) : bits[j] = 1
       IN [i \in 1..Len(bits) |-> IF i < p THEN bits[i] ELSE IF i = p THEN 1 ELSE 0]

DoubleMantissa == 53

\* the IEEE-754 double nearest to the integer with the given binary digits
\* (ties to even), as binary digits
RoundToDouble(bits) ==
  IF Len(bits) <= DoubleMantissa THEN bits
  ELSE LET top == SubSeq(bits, 1, DoubleMantissa)
           rest == SubSeq(bits, DoubleMantissa + 1, Len(bits))
           sticky == \E i \in 2..Len(rest) : rest[i] = 1
           up == rest[1] = 1 /\ (sticky \/ top[DoubleMantissa] = 1)
           kept == IF up THEN IncrementBits(top) ELSE top
       IN kept \o Zeros(Len(rest))

RECURSIVE SmallValue(_)
SmallValue(ds) ==
  IF ds = <<>> THEN 0 ELSE 10 * SmallValue(Front(ds)) + ds[Len(ds)]

\* a JavaScript number that is a natural: below ten decimal digits its value,
\* from there on the decimal digits of its value
JsNumber(ds) ==
  IF Len(ds) <= 9 THEN Num(SmallValue(ds)) ELSE [t |-> "num", big |-> ds]

RECURSIVE SmallDigits(_)
SmallDigits(n) ==
  IF n < 10 THEN <<n>> ELSE Append(SmallDigits(n \div 10), n % 10)

\* the decimal digits of the value of a number that is a natural
NaturalDigits(x) == IF IsBig(x) THEN x.big ELSE SmallDigits(x.v)

\* Number.prototype.toString for the numbers of the model
NumberToString(x) ==
  IF IsBig(x) THEN CharsOf(x.big)
  ELSE IF IsFraction(x) THEN CharsOf(x.whole) \o <<".">> \o CharsOf(x.frac)
  ELSE <<ToString(x.v)>>

\* `${v}` for the values that reach a template literal here
TemplateOf(v) ==
  CASE v.t = "str" -> v.v
    [] v.t = "num" -> NumberToString(v)
    [] OTHER -> <<v.t>>

\* Number(s) for a string of decimal digits: the decimal digits of the double
NumberOfDecString(s) ==
  ConvertBase(HexOfBits(RoundToDouble(BitsOfHex(ConvertBase(DigitsOf(s), 10, 16)))), 16, 10)

\* /^0x[0-9a-f]+$/.test(s)
MatchesHex(s) ==
  /\ StartsWith0x(s)
  /\ Len(s) >= 3
  /\ \A i \in 3..Len(s) : IsLowerHexDigit(s[i])

\* a variant without the minimum of 40 digits
MatchesLongHexAnyLength(s) ==
  /\ StartsWith0x(s)
  /\ \A i \in 3..Len(s) : IsHexDigit(s[i])

\* /^0x[a-fA-F0-9]{40,}$/.test(s)
MatchesLongHex(s) ==
  /\ StartsWith0x(s)
  /\ Len(s) >= 42
  /\ \A i \in 3..Len(s) : IsHexDigit(s[i])

\* hexToDecimalString(hex): a number, or a throw
hexToDecimalString(hex) ==
  IF hex.t # "str"
  THEN Throw(Err("TypeError", <<"hexToDecimalString: expected a string, got ", hex.t>>,
                 Undefined, Undefined))
  ELSE LET raw == ToLowerCase(Trim(hex.v))
           normalized == IF StartsWith0x(raw) THEN raw ELSE <<"0", "x">> \o raw
       IN IF raw = <<"0", "x">> THEN Num(0)
          ELSE IF ~MatchesHex(normalized)
          THEN Throw(Err("Error",
                         <<"hexToDecimalString: invalid hex string \"">> \o hex.v \o <<"\"">>,
                         Undefined, Undefined))
          ELSE LET big == DigitsOf(SubSeq(normalized, 3, Len(normalized)))
                   asDec == CharsOf(ConvertBase(big, 16, 10))
               IN JsNumber(NumberOfDecString(asDec))

\* BigInt(s) accepts a 0x-prefixed string when hex digits follow the prefix
BigIntParses(s) ==
  LET w == Trim(s)
  IN Len(w) >= 3 /\ \A i \in 3..Len(w) : IsHexDigit(w[i])

\* a variant that multiplies the value of a field named value by 10^18
normalizeHexFieldScaled(key, hex) ==
  IF hex.v = <<"0", "x">> THEN Str(<<"0">>)
  ELSE IF ~BigIntParses(hex.v)
  THEN Throw(Err("SyntaxError", <<"Cannot convert ">> \o hex.v \o <<" to a BigInt">>,
                 Undefined, Undefined))
  ELSE LET w == Trim(hex.v)
           n == ConvertBase(DigitsOf(SubSeq(w, 3, Len(w))), 16, 10)
       IN Str(CharsOf(IF key = "value" THEN StripZeros(n \o Zeros(18)) ELSE n))

\* normalizeHexField(key, hex) for a string hex that starts with 0x
normalizeHexField(key, hex) ==
  IF hex.v = <<"0", "x">> THEN Str(<<"0">>)
  ELSE IF ~BigIntParses(hex.v)
  THEN Throw(Err("SyntaxError", <<"Cannot convert ">> \o hex.v \o <<" to a BigInt">>,
                 Undefined, Undefined))
  ELSE LET w == Trim(hex.v)
       IN Str(CharsOf(ConvertBase(DigitsOf(SubSeq(w, 3, Len(w))), 16, 10)))

\* a variant of the list that lacks "to"
IdentifierFieldsWithoutTo ==
  {"address", "hash", "from", "transactionHash", "blockHash", "contractAddress"}

IdentifierFields ==
  {"address", "hash", "from", "to", "transactionHash", "blockHash", "contractAddress"}

\* the first throw among a sequence of values, or Undefined
RECURSIVE FirstThrow(_)
FirstThrow(s) ==
  IF s = <<>> THEN Undefined
  ELSE IF IsThrow(Head(s)) THEN Head(s)
  ELSE FirstThrow(Tail(s))

RECURSIVE normalizeResponse(_)
\* normalizeResponse(resp): the normalised value, or a throw
normalizeResponse(resp) ==
  LET mapArr(a) ==
        LET m == [i \in 1..Len(a) |->
                    IF TypeofObject(a[i]) THEN normalizeResponse(a[i]) ELSE a[i]]
            th == FirstThrow(m)
        IN IF th # Undefined THEN th ELSE Arr(m)
      field(key, val) ==
        IF val.t = "str" /\ StartsWith0x(val.v)
        THEN IF key \in IdentifierFields THEN val ELSE normalizeHexField(key, val)
        ELSE IF val.t = "arr" THEN mapArr(val.v)
        ELSE IF Truthy(val) /\ TypeofObject(val) THEN normalizeResponse(val)
        ELSE val
  IN CASE resp.t = "null" -> Obj(<<>>)
       [] resp.t = "bool" -> resp
       [] resp.t = "str" ->
            IF MatchesLongHex(resp.v) THEN resp ELSE hexToDecimalString(resp)
       [] resp.t = "arr" -> mapArr(resp.v)
       [] resp.t = "undefined" ->
            Throw(Err("TypeError", <<"Cannot convert undefined or null to object">>,
                      Undefined, Undefined))
       [] resp.t = "obj" ->
            LET vals == [i \in 1..Len(resp.v) |-> field(resp.v[i][1], resp.v[i][2])]
                th == FirstThrow(vals)
            IN IF th # Undefined THEN th
               ELSE Obj([i \in 1..Len(resp.v) |-> <<resp.v[i][1], vals[i]>>])
       [] OTHER -> Obj(<<>>)

----------------------------------------------------------------------------
(* utils.ts: scaled units *)

DEFAULT_DECIMALS == 18
NEC_DECIMALS == 18

IsDecDigit(c) == \E i \in 1..10 : HexDigitChars[i] = c

\* /^\d*$/.test(s)
AllDecDigits(s) == \A i \in 1..Len(s) : IsDecDigit(s[i])

\* s.padEnd(n, '0')
PadEnd(s, n) == IF Len(s) >= n THEN s ELSE s \o [i \in 1..(n - Len(s)) |-> "0"]

\* variant: the string is not padded
PadStartSkipped(s, n) == s

\* s.padStart(n, '0')
PadStart(s, n) == IF Len(s) >= n THEN s ELSE [i \in 1..(n - Len(s)) |-> "0"] \o s

RECURSIVE StripTrailingZeroChars(_)
\* s.replace(/0+$/, '')
StripTrailingZeroChars(s) ==
  IF s # <<>> /\ s[Len(s)] = "0" THEN StripTrailingZeroChars(Front(s)) ELSE s

RECURSIVE SplitDot(_)
\* s.split('.')
SplitDot(s) ==
  IF \E i \in 1..Len(s) : s[i] = "."
  THEN LET i == CHOOSE k \in 1..Len(s) : s[k] = "." /\ \A j \in 1..(k - 1) : s[j] # "."
       IN <<SubSeq(s, 1, i - 1)>> \o SplitDot(SubSeq(s, i + 1, Len(s)))
  ELSE <<s>>

\* x.toFixed(d) for a number below 1e21 whose decimal expansion is exact (a
\* natural, or a fraction that is a multiple of a power of 1/2): the nearest
\* decimal with d fractional digits, the larger one of two equally near
ToFixed(x, d) ==
  LET point(whole, frac) == IF d = 0 THEN CharsOf(whole) ELSE CharsOf(whole) \o <<".">> \o CharsOf(frac)
  IN IF ~IsFraction(x) THEN point(NaturalDigits(x), Zeros(d))
     ELSE IF Len(x.frac) <= d THEN point(x.whole, x.frac \o Zeros(d - Len(x.frac)))
     ELSE LET kept == x.whole \o SubSeq(x.frac, 1, d)
              rounded == IF x.frac[d + 1] >= 5 THEN AddDigits(kept, <<1>>, 10, 0) ELSE kept
              cut == Len(rounded) - d
          IN point(StripZeros(SubSeq(rounded, 1, cut)), SubSeq(rounded, cut + 1, Len(rounded)))

BigIntValue(ds) == [t |-> "bigint", v |-> ds]

\* BigInt(value): the decimal digits of the integer, or a throw
BigIntOf(value) ==
  CASE value.t = "num" ->
         IF IsFraction(value)
         THEN Throw(Err("RangeError",
                        <<"The number ">> \o NumberToString(value)
                          \o <<" cannot be converted to a BigInt because it is not an integer">>,
                        Undefined, Undefined))
         ELSE BigIntValue(NaturalDigits(value))
    [] value.t = "str" ->
         LET w == Trim(value.v)
         IN IF AllDecDigits(w) THEN BigIntValue(StripZeros(DigitsOf(w)))
            ELSE IF Len(w) >= 3 /\ w[1] = "0" /\ LowerChar(w[2]) = "x"
                    /\ \A i \in 3..Len(w) : IsHexDigit(w[i])
            THEN BigIntValue(ConvertBase(DigitsOf(SubSeq(w, 3, Len(w))), 16, 10))
            ELSE Throw(Err("SyntaxError", <<"Cannot convert ">> \o value.v \o <<" to a BigInt">>,
                           Undefined, Undefined))
    [] value.t = "bool" -> BigIntValue(IF value.v THEN <<1>> ELSE <<0>>)
    [] OTHER ->
         Throw(Err("TypeError", <<"Cannot convert ", value.t, " to a BigInt">>,
                   Undefined, Undefined))

\* '0x' + big.toString(16)
HexOf(ds) == Str(<<"0", "x">> \o CharsOf(ConvertBase(ds, 10, 16)))

\* decimalToHex(value)
decimalToHex(value) ==
  LET big == BigIntOf(value)
  IN IF IsThrow(big) THEN big ELSE HexOf(big.v)

\* big * TEN ** BigInt(decimals)
TimesFactor(ds, decimals) == StripZeros(ds \o Zeros(decimals))

\* parseUnits(value, decimals) for a number or a string
parseUnits(value, decimals) ==
  LET str == IF value.t = "num" THEN ToFixed(value, decimals) ELSE value.v
      parts == SplitDot(str)
      wholePart == parts[1]
      fracPart == IF Len(parts) >= 2 THEN parts[2] ELSE <<>>
  IN IF wholePart = <<>> \/ ~AllDecDigits(wholePart) \/ ~AllDecDigits(fracPart)
     THEN Throw(Err("Error",
                    <<"parseUnits: invalid numeric value \"">> \o TemplateOf(value) \o <<"\"">>,
                    Undefined, Undefined))
     ELSE IF Len(fracPart) > decimals
     THEN Throw(Err("Error",
                    <<"parseUnits: too many decimal places (max ", ToString(decimals), ") in \"">>
                      \o TemplateOf(value) \o <<"\"">>,
                    Undefined, Undefined))
     ELSE LET whole == TimesFactor(StripZeros(DigitsOf(wholePart)), decimals)
              frac == StripZeros(DigitsOf(PadEnd(fracPart, decimals)))
              combined == StripZeros(AddDigits(whole, frac, 10, 0))
          IN HexOf(combined)

\* variant: the amount is converted without a scale
etherToWeiHexUnscaled(value) == decimalToHex(value)

\* etherToWeiHex(value)
etherToWeiHex(value) == parseUnits(value, DEFAULT_DECIMALS)

\* formatUnits(value, decimals)
formatUnits(value, decimals) ==
  LET big == BigIntOf(value)
  IN IF IsThrow(big) THEN big
     ELSE LET cut == Len(big.v) - decimals
              integer == IF cut <= 0 THEN <<0>> ELSE SubSeq(big.v, 1, cut)
              fraction == StripZeros(IF cut <= 0 THEN big.v ELSE SubSeq(big.v, cut + 1, Len(big.v)))
              fracStr == StripTrailingZeroChars(PadStart(CharsOf(fraction), decimals))
          IN IF fracStr # <<>>
             THEN Str(CharsOf(integer) \o <<".">> \o fracStr)
             ELSE Str(CharsOf(integer))

\* weiToNec(value)
weiToNec(value) == formatUnits(value, NEC_DECIMALS)

\* String(val) for a scalar
StringOf(val) ==
  CASE val.t = "str" -> val.v
    [] val.t = "num" -> NumberToString(val)
    [] val.t = "bool" -> IF val.v THEN <<"true">> ELSE <<"false">>
    [] OTHER -> <<val.t>>

\* variant: every string counts as numeric
IsNumericValueAnyString(val) == val.t \in {"num", "str"}

\* typeof val === 'number' || /^[0-9]+$/.test(val)
IsNumericValue(val) ==
  val.t = "num" \/ (StringOf(val) # <<>> /\ AllDecDigits(StringOf(val)))

\* the characters of the field names of outbound payloads
FieldNameChars ==
  [value |-> <<"v","a","l","u","e">>,
   Value |-> <<"V","a","l","u","e">>,
   amount |-> <<"a","m","o","u","n","t">>,
   tokenBalance |-> <<"t","o","k","e","n","B","a","l","a","n","c","e">>,
   gas |-> <<"g","a","s">>,
   to |-> <<"t","o">>]

CharsOfKey(key) == IF key \in DOMAIN FieldNameChars THEN FieldNameChars[key] ELSE <<key>>

\* s.includes(sub)
Includes(s, sub) ==
  \E i \in 0..(Len(s) - Len(sub)) : SubSeq(s, i + 1, i + Len(sub)) = sub

\* variant: the field name is matched as written
IsAmountFieldCaseSensitive(key) ==
  \/ Includes(CharsOfKey(key), <<"a","m","o","u","n","t">>)
  \/ Includes(CharsOfKey(key), <<"b","a","l","a","n","c","e">>)

\* key.toLowerCase().includes('amount') || key.toLowerCase().includes('balance')
IsAmountField(key) ==
  \/ Includes(ToLowerCase(CharsOfKey(key)), <<"a","m","o","u","n","t">>)
  \/ Includes(ToLowerCase(CharsOfKey(key)), <<"b","a","l","a","n","c","e">>)

RECURSIVE SerializeEntries(_, _)
\* the for-loop of serializeForRpc over Object.entries(payload)
SerializeEntries(entries, out) ==
  IF entries = <<>> THEN out
  ELSE LET key == Head(entries)[1]
           val == Head(entries)[2]
           converted ==
             IF IsNumericValue(val)
             THEN IF key = "value" THEN etherToWeiHex(val)
                  ELSE IF IsAmountField(key) THEN parseUnits(val, DEFAULT_DECIMALS)
                  ELSE decimalToHex(val)
             ELSE val
       IN IF IsThrow(converted) THEN converted
          ELSE SerializeEntries(Tail(entries), Put(out, key, converted))

\* serializeForRpc(payload)
serializeForRpc(payload) == SerializeEntries(payload.v, Obj(<<>>))

----------------------------------------------------------------------------
(* provider.ts: errors, envelopes, middleware and transport *)

NoUrl == ""
ProviderUrl == "http://localhost:8545"

\* variant: the URL check is missing
UrlNotSetUnchecked(u) == FALSE

\* !this.url
UrlNotSet(u) == u = NoUrl

ErrorOf(message) == Err("Error", message, Undefined, Undefined)
AxiosErrorOf(message) == Err("AxiosError", message, Undefined, Undefined)

\* variant: the error data is not handed on
RpcErrorWithoutData(message, code, data) ==
  Err("RpcError",
      <<"RPC Error: ">> \o TemplateOf(message) \o <<" (code: ">> \o TemplateOf(code) \o <<")">>,
      code, Undefined)

\* new RpcError(message, code, data)
RpcError(message, code, data) ==
  Err("RpcError",
      <<"RPC Error: ">> \o TemplateOf(message) \o <<" (code: ">> \o TemplateOf(code) \o <<")">>,
      code, data)

UrlNotSetError == ErrorOf(<<"Provider URL is not set">>)

MethodNames == <<"eth_chainId", "eth_blockNumber">>

\* the list of n calls handed to batchRpc
CallList(n) == [i \in 1..n |-> [method |-> MethodNames[((i - 1) % Len(MethodNames)) + 1]]]

\* { jsonrpc: '2.0', id, method, params }
Envelope(id, method) ==
  Obj(<< <<"jsonrpc", Str(<<"2.0">>)>>, <<"id", Num(id)>>,
         <<"method", Str(<<method>>)>>, <<"params", Arr(<<>>)>> >>)

IdOf(x) == Get(x, "id").v

\* tags appended to an envelope by the request middleware, in order
TagsOf(p) == IF Get(p, "tags") = Undefined THEN <<>> ELSE Get(p, "tags").v

\* request middleware a caller registers: two that append a tag, one that throws
RequestMwKinds == {"tagA", "tagB", "throws"}
\* response middleware: two that add a field, three that throw (an Error, the
\* AxiosError of a request of their own, a string)
ResponseMwKinds == {"echo", "stamp", "throws", "throwsAxios", "throwsText"}

MwError == ErrorOf(<<"mw error">>)
MwAxiosError == AxiosErrorOf(<<"mw request failed">>)
MwText == Str(<<"mw text">>)

\* what a throwing middleware throws
MwThrown(kind) ==
  CASE kind = "throwsAxios" -> MwAxiosError
    [] kind = "throwsText" -> MwText
    [] OTHER -> MwError

MwTag(kind) == Str(<<kind>>)

\* mw(payload) for a request middleware
ApplyRequestMw(kind, payload) ==
  IF kind = "throws" THEN Throw(MwError)
  ELSE Put(payload, "tags", Arr(Append(TagsOf(payload), MwTag(kind))))

\* mw(response, payload) for a response middleware; echo returns
\* {...response, envelopeId: payload?.id}, stamp returns
\* {...response, seen: response.envelopeId}
ApplyResponseMw(kind, response, payload) ==
  IF kind \in {"throws", "throwsAxios", "throwsText"} THEN Throw(MwThrown(kind))
  ELSE IF kind = "stamp" THEN Put(response, "seen", Get(response, "envelopeId"))
  ELSE Put(response, "envelopeId", Get(payload, "id"))

\* bodies of the response objects a node returns
RpcErrorObject ==
  Obj(<< <<"message", Str(<<"fail">>)>>, <<"code", Num(-32000)>>,
         <<"data", Str(<<"0", "x", "d", "e", "a", "d">>)>> >>)

Bodies ==
  { <<"result", Str(<<"0", "x", "1">>)>>,
    <<"result", Str(<<"0", "x", "z", "z">>)>>,
    <<"result", Bool(FALSE)>>,
    <<"error", RpcErrorObject>> }

OkBody == <<"result", Str(<<"0", "x", "1">>)>>

ResponseObject(id, body) ==
  Obj(<< <<"jsonrpc", Str(<<"2.0">>)>>, <<"id", Num(id)>>, body >>)

\* what axios.post can reject with
TransportFailures ==
  { AxiosErrorOf(<<"Network error">>), ErrorOf(<<"Other error">>), Str(<<"boom">>) }

Data(v) == [t |-> "data", v |-> v]
Fail(e) == [t |-> "fail", v |-> e]

\* outcomes of axios.post for a single envelope
RpcAnswers(id) ==
  {Data(ResponseObject(id, b)) : b \in Bodies} \cup {Fail(e) : e \in TransportFailures}

Perms(n) == {f \in [1..n -> 1..n] : \A i, j \in 1..n : f[i] = f[j] => i = j}

\* one response per envelope, in any order; the node answers the first
\* envelope with one body and the others with another
PermutedResponses(ids) ==
  LET n == Len(ids)
      body(b, i) == IF i = 1 THEN b[1] ELSE b[2]
  IN { [i \in 1..n |-> ResponseObject(ids[p[i]], body(b, p[i]))] :
         p \in Perms(n), b \in Bodies \X Bodies }

\* outcomes of axios.post for a batch of envelopes with the given ids: the
\* responses in any order, the last response missing, one response too many,
\* a single object instead of an array, or a failure
BatchAnswers(ids, nextId) ==
  LET n == Len(ids)
      perms == PermutedResponses(ids)
      inOrder == {r \in perms : \A i \in 1..n : IdOf(r[i]) = ids[i]}
      fewer == IF n = 0 THEN {} ELSE {SubSeq(r, 1, n - 1) : r \in inOrder}
      extra == ResponseObject(IF n = 0 THEN nextId ELSE ids[1], OkBody)
      more == {Append([i \in 1..n |-> ResponseObject(ids[i], OkBody)], extra)}
      single == {ResponseObject(IF n = 0 THEN nextId ELSE ids[1], b) : b \in Bodies}
  IN {Data(Arr(r)) : r \in perms \cup fewer \cup more}
       \cup {Data(o) : o \in single}
       \cup {Fail(e) : e \in TransportFailures}

RECURSIVE InsertById(_, _)
InsertById(sorted, x) ==
  IF sorted = <<>> THEN <<x>>
  ELSE IF IdOf(x) < IdOf(sorted[Len(sorted)]) 
  THEN Append(InsertById(SubSeq(sorted, 1, Len(sorted) - 1), x), sorted[Len(sorted)])
  ELSE Append(sorted, x)

RECURSIVE SortById(_)
\* results.sort((a, b) => a.id - b.id): stable, ascending by id
SortById(rs) ==
  IF rs = <<>> THEN <<>>
  ELSE InsertById(SortById(SubSeq(rs, 1, Len(rs) - 1)), rs[Len(rs)])

----------------------------------------------------------------------------
(* provider.ts: class Provider as a state machine.  An action is one run of *)
(* a handler between two awaits.                                           *)

VARIABLES
  url,                 \* this.url
  idCounter,           \* this.idCounter
  requestMiddleware,   \* this.requestMiddleware
  responseMiddleware,  \* this.responseMiddleware
  slots,               \* the invocations of rpc and batchRpc in progress
  issued,              \* ids of the envelopes built so far
  started,             \* number of invocations made so far
  op,                  \* the function of utils.ts (or getBalance) called last
  args,                \* its arguments
  ret,                 \* what it returned, or the throw it ended with
  before,              \* the arguments of the call whose return value it was given
  ws,                  \* Subscription: this.ws (none | connecting | open | closed)
  isConnected,         \* this.isConnected
  wsIdCounter,         \* this.idCounter of the Subscription
  pendingRequests,     \* keys of this.pendingRequests
  promises,            \* the promise returned by the sendRpc call with each id
  settleCalls,         \* calls of resolve or reject made for each id
  socketSent,          \* payloads handed to ws.send, in order
  inFlight,            \* ids the node has received and not answered
  lastMsg,             \* the message handed to onmessage last
  msgTick,             \* flips with every message handed to onmessage
  refused,             \* sendRpc calls rejected because not connected
  deployer,            \* Contract.deploy: the kind of its deployer argument
  dpc,                 \* position of the deploy call
  polls,               \* the loop variable i of deploy
  txSent,              \* sendTransaction calls made by deploy
  receiptCalls,        \* getTransactionReceipt calls made by deploy
  receipt,             \* the local variable receipt of deploy
  deployed             \* how the deploy call settled

vars ==
  <<url, idCounter, requestMiddleware, responseMiddleware, slots, issued, started,
    op, args, ret, before,
    ws, isConnected, wsIdCounter, pendingRequests, promises, settleCalls, socketSent,
    inFlight, lastMsg, msgTick, refused,
    deployer, dpc, polls, txSent, receiptCalls, receipt, deployed>>

\* the state of the Provider instance, and the record of the last utility call
pvars == <<url, idCounter, requestMiddleware, responseMiddleware, slots, issued, started>>
uvars == <<op, args, ret, before>>
\* the state of the Subscription instance and of its socket
wvars ==
  <<ws, isConnected, wsIdCounter, pendingRequests, promises, settleCalls, socketSent,
    inFlight, lastMsg, msgTick, refused>>
\* the state of one call of Contract.deploy
cvars == <<deployer, dpc, polls, txSent, receiptCalls, receipt, deployed>>

RequestIds == 1..MaxRequests

\* a Subscription as its constructor leaves it, with no promise issued
SubscriptionInit ==
  /\ ws = "none"
  /\ isConnected = FALSE
  /\ wsIdCounter = 1
  /\ pendingRequests = {}
  /\ promises = [id \in RequestIds |-> Undefined]
  /\ settleCalls = [id \in RequestIds |-> 0]
  /\ socketSent = <<>>
  /\ inFlight = {}
  /\ lastMsg = Undefined
  /\ msgTick = 0
  /\ refused = 0

\* Contract.deploy has not been called
DeployIdle ==
  /\ deployer = "none"
  /\ dpc = "idle"
  /\ polls = 0
  /\ txSent = 0
  /\ receiptCalls = 0
  /\ receipt = Null
  /\ deployed = Undefined

Slots == {1, 2}

\* pc: idle | reqmw (awaiting request middleware mwi) | sent (awaiting
\* axios.post) | respmw (awaiting response middleware mwi) | done
\* failedAt: the step that threw (url, reqmw, transport, respmw, finish), or none
IdleSlot ==
  [pc |-> "idle", kind |-> "none", calls |-> <<>>, payloads |-> <<>>, mwi |-> 0,
   reqStarted |-> 0, reqDone |-> 0, wire |-> <<>>, answer |-> Undefined,
   results |-> <<>>, failedAt |-> "none", outcome |-> Undefined]

Resolved(v) == [t |-> "resolved", v |-> v]
Rejected(e) == [t |-> "rejected", v |-> e]

Settle(sl, outcome) == [sl EXCEPT !.pc = "done", !.outcome = outcome]

\* a throw outside the try block: the promise rejects with the error
Thrown(sl, at, error) == [Settle(sl, Rejected(error)) EXCEPT !.failedAt = at]

\* the body handed to axios.post: the payload, or the array of payloads
PostBody(kind, payloads) == IF kind = "rpc" THEN payloads[1] ELSE Arr(payloads)

\* the for-loop over this.requestMiddleware from index k on: the next
\* middleware is called and awaited, or the loop ends and axios.post is called
RequestStage(sl, k) ==
  IF k <= Len(requestMiddleware)
  THEN [sl EXCEPT !.pc = "reqmw", !.mwi = k, !.reqStarted = k]
  ELSE [sl EXCEPT !.pc = "sent", !.wire = Append(@, PostBody(sl.kind, sl.payloads))]

\* variant: every caught error is wrapped, not only an AxiosError
RpcCatchWrapsAll(method, error) ==
  ErrorOf(<<"RPC request failed for method \"", method, "\": ">>
            \o TemplateOf(Get(error, "message")))

\* catch block of rpc: the error the call rejects with
RpcCatch(method, error) ==
  IF error.t = "err" /\ error.name = "AxiosError"
  THEN ErrorOf(<<"RPC request failed for method \"", method, "\": ">>
                 \o TemplateOf(Get(error, "message")))
  ELSE error

\* variant: no fallback to the thrown value
BatchCatchMessageOnly(calls, error) ==
  Arr([i \in 1..Len(calls) |-> Obj(<< <<"error", Get(error, "message")>> >>)])

\* catch block of batchRpc: calls.map(() => ({ error: error.message || error }))
BatchCatch(calls, error) ==
  Arr([i \in 1..Len(calls) |-> Obj(<< <<"error", OrElse(Get(error, "message"), error)>> >>)])

\* variant: a failed transmission is tried once more
CaughtRetries(sl, at, error) ==
  IF at = "transport" /\ Len(sl.wire) < 2
  THEN [sl EXCEPT !.pc = "sent", !.wire = Append(@, PostBody(sl.kind, sl.payloads))]
  ELSE [(IF sl.kind = "rpc"
         THEN Settle(sl, Rejected(RpcCatch(sl.calls[1].method, error)))
         ELSE Settle(sl, Resolved(BatchCatch(sl.calls, error))))
        EXCEPT !.failedAt = at]

\* a throw inside the try block of the invocation
Caught(sl, at, error) ==
  [(IF sl.kind = "rpc"
    THEN Settle(sl, Rejected(RpcCatch(sl.calls[1].method, error)))
    ELSE Settle(sl, Resolved(BatchCatch(sl.calls, error))))
   EXCEPT !.failedAt = at]

\* the slot of the returned array for one response of a batch
BatchSlot(res) ==
  IF Truthy(Get(res, "error"))
  THEN Obj(<< <<"error", Get(res, "error")>> >>)
  ELSE normalizeResponse(OrElse(Get(res, "result"), res))

\* rpc after the response middleware: classification and normalisation
RpcFinish(sl, response) ==
  IF Truthy(Get(response, "error"))
  THEN LET e == Get(response, "error")
       IN Caught(sl, "finish", RpcError(Get(e, "message"), Get(e, "code"), Get(e, "data")))
  ELSE LET out == normalizeResponse(OrElse(Get(response, "result"), response))
       IN IF IsThrow(out) THEN Caught(sl, "finish", out.v) ELSE Settle(sl, Resolved(out))

\* variant: a failed normalisation costs only its own slot
BatchFinishPerSlot(sl, results) ==
  LET sorted == SortById(results)
      slot(res) == IF IsThrow(BatchSlot(res))
                   THEN Obj(<< <<"error", OrElse(Get(BatchSlot(res).v, "message"),
                                                 BatchSlot(res).v)>> >>)
                   ELSE BatchSlot(res)
  IN Settle(sl, Resolved(Arr([i \in 1..Len(sorted) |-> slot(sorted[i])])))

\* batchRpc after the response middleware: sort by id, then map
BatchFinish(sl, results) ==
  LET sorted == SortById(results)
      out == [i \in 1..Len(sorted) |-> BatchSlot(sorted[i])]
      th == FirstThrow(out)
  IN IF th # Undefined THEN Caught(sl, "finish", th.v) ELSE Settle(sl, Resolved(Arr(out)))

Finish(sl, results) ==
  IF sl.kind = "rpc" THEN RpcFinish(sl, results[1]) ELSE BatchFinish(sl, results)

\* the for-loop over this.responseMiddleware from index k on
ResponseStage(sl, results, k) ==
  IF k <= Len(responseMiddleware)
  THEN [sl EXCEPT !.pc = "respmw", !.mwi = k, !.results = results]
  ELSE Finish([sl EXCEPT !.results = results], results)

\* a settled promise is taken by its awaiting caller (a microtask) before the
\* event loop runs anything else
NoneSettled == \A s \in Slots : slots[s].pc # "done"

CanStart(s) ==
  /\ NoneSettled
  /\ slots[s].pc = "idle"
  /\ \A r \in Slots : r < s => slots[r].pc # "idle"
  /\ started < MaxInvocations

Init ==
  /\ url \in {NoUrl, ProviderUrl}
  /\ idCounter = 1
  /\ requestMiddleware = <<>>
  /\ responseMiddleware = <<>>
  /\ slots = [s \in Slots |-> IdleSlot]
  /\ issued = {}
  /\ started = 0
  /\ op = "none"
  /\ args = <<>>
  /\ ret = Undefined
  /\ before = <<>>
  /\ SubscriptionInit
  /\ DeployIdle

\* useRequest(middleware); middleware are registered while no call is in
\* flight
useRequest(mw) ==
  /\ \A s \in Slots : slots[s].pc = "idle"
  /\ Len(requestMiddleware) + Len(responseMiddleware) < MaxMw
  /\ requestMiddleware' = Append(requestMiddleware, mw)
  /\ UNCHANGED <<url, idCounter, responseMiddleware, slots, issued, started>>
  /\ UNCHANGED <<uvars, wvars, cvars>>

\* useResponse(middleware)
useResponse(mw) ==
  /\ \A s \in Slots : slots[s].pc = "idle"
  /\ Len(requestMiddleware) + Len(responseMiddleware) < MaxMw
  /\ responseMiddleware' = Append(responseMiddleware, mw)
  /\ UNCHANGED <<url, idCounter, requestMiddleware, slots, issued, started>>
  /\ UNCHANGED <<uvars, wvars, cvars>>

\* rpc(method): from the call to the first await; calls overlap each other,
\* a batch runs alone
rpc(s, method) ==
  /\ CanStart(s)
  /\ \A r \in Slots : slots[r].kind # "batch"
  /\ started' = started + 1
  /\ LET sl == [IdleSlot EXCEPT !.kind = "rpc", !.calls = <<[method |-> method]>>]
     IN IF UrlNotSet(url)
        THEN /\ slots' = [slots EXCEPT ![s] = Thrown(sl, "url", UrlNotSetError)]
             /\ UNCHANGED <<idCounter, issued>>
        ELSE /\ idCounter' = idCounter + 1
             /\ issued' = issued \cup {idCounter}
             /\ slots' = [slots EXCEPT ![s] =
                  RequestStage([sl EXCEPT !.payloads = <<Envelope(idCounter, method)>>], 1)]
  /\ UNCHANGED <<url, requestMiddleware, responseMiddleware>>
  /\ UNCHANGED <<uvars, wvars, cvars>>

\* the envelopes batchRpc builds: ids this.idCounter + i for i = 0 .. n-1
BatchPayloads(calls, counter) ==
  [i \in 1..Len(calls) |-> Envelope(counter + (i - 1), calls[i].method)]

\* batchRpc(calls): from the call to the first await; a batch starts when no
\* other invocation is in progress
batchRpc(s, n) ==
  /\ CanStart(s)
  /\ \A r \in Slots : slots[r].pc = "idle"
  /\ started' = started + 1
  /\ LET calls == CallList(n)
         sl == [IdleSlot EXCEPT !.kind = "batch", !.calls = calls]
     IN IF UrlNotSet(url)
        THEN /\ slots' = [slots EXCEPT ![s] = Thrown(sl, "url", UrlNotSetError)]
             /\ UNCHANGED issued
        ELSE LET payloads == BatchPayloads(calls, idCounter)
             IN /\ issued' = issued \cup {IdOf(payloads[i]) : i \in 1..n}
                /\ slots' = [slots EXCEPT ![s] =
                     RequestStage([sl EXCEPT !.payloads = payloads], 1)]
  /\ UNCHANGED <<url, idCounter, requestMiddleware, responseMiddleware>>
  /\ UNCHANGED <<uvars, wvars, cvars>>

\* variant: the list is walked from its end
CurrentRequestMwReversed(sl) ==
  requestMiddleware[Len(requestMiddleware) - sl.mwi + 1]

\* the middleware the for-loop over this.requestMiddleware is at
CurrentRequestMw(sl) == requestMiddleware[sl.mwi]

\* the awaited request middleware completes on every payload of the invocation
RequestMwDone(s) ==
  /\ NoneSettled
  /\ slots[s].pc = "reqmw"
  /\ LET sl == slots[s]
         mw == CurrentRequestMw(sl)
         out == [i \in 1..Len(sl.payloads) |-> ApplyRequestMw(mw, sl.payloads[i])]
         th == FirstThrow(out)
     IN slots' = [slots EXCEPT ![s] =
          IF th # Undefined
          THEN Thrown(sl, "reqmw", th.v)
          ELSE RequestStage([sl EXCEPT !.payloads = out, !.reqDone = sl.mwi], sl.mwi + 1)]
  /\ UNCHANGED <<url, idCounter, requestMiddleware, responseMiddleware, issued, started>>
  /\ UNCHANGED <<uvars, wvars, cvars>>

\* data.isArray ? data : [data]
AsResults(kind, data) == IF kind = "batch" /\ data.t = "arr" THEN data.v ELSE <<data>>

\* axios.post settles
TransportAnswer(s, ans) ==
  /\ NoneSettled
  /\ slots[s].pc = "sent"
  /\ LET sl == [slots[s] EXCEPT !.answer = ans]
     IN slots' = [slots EXCEPT ![s] =
          IF ans.t = "fail"
          THEN Caught(sl, "transport", ans.v)
          ELSE ResponseStage(sl, AsResults(sl.kind, ans.v), 1)]
  /\ UNCHANGED <<url, idCounter, requestMiddleware, responseMiddleware, issued, started>>
  /\ UNCHANGED <<uvars, wvars, cvars>>

\* payloads[i]
At(seq, i) == IF i \in 1..Len(seq) THEN seq[i] ELSE Undefined

\* the awaited response middleware completes on every result of the invocation
ResponseMwDone(s) ==
  /\ NoneSettled
  /\ slots[s].pc = "respmw"
  /\ LET sl == slots[s]
         mw == responseMiddleware[sl.mwi]
         out == [i \in 1..Len(sl.results) |->
                   ApplyResponseMw(mw, sl.results[i], At(sl.payloads, i))]
         th == FirstThrow(out)
     IN slots' = [slots EXCEPT ![s] =
          IF th # Undefined
          THEN Caught(sl, "respmw", th.v)
          ELSE ResponseStage(sl, out, sl.mwi + 1)]
  /\ UNCHANGED <<url, idCounter, requestMiddleware, responseMiddleware, issued, started>>
  /\ UNCHANGED <<uvars, wvars, cvars>>

\* the caller has taken the settled promise
Return(s) ==
  /\ slots[s].pc = "done"
  /\ slots' = [slots EXCEPT ![s] = IdleSlot]
  /\ UNCHANGED <<url, idCounter, requestMiddleware, responseMiddleware, issued, started>>
  /\ UNCHANGED <<uvars, wvars, cvars>>

AnswersFor(sl) ==
  IF sl.pc # "sent" THEN {}
  ELSE IF sl.kind = "rpc"
  THEN RpcAnswers(IdOf(sl.payloads[1]))
  ELSE BatchAnswers([i \in 1..Len(sl.payloads) |-> IdOf(sl.payloads[i])], idCounter)

Next ==
  \/ \E mw \in RequestMwKinds : useRequest(mw)
  \/ \E mw \in ResponseMwKinds : useResponse(mw)
  \/ \E s \in Slots, i \in 1..Len(MethodNames) : rpc(s, MethodNames[i])
  \/ \E s \in Slots, n \in 0..MaxBatch : batchRpc(s, n)
  \/ \E s \in Slots : RequestMwDone(s)
  \/ \E s \in Slots : \E ans \in AnswersFor(slots[s]) : TransportAnswer(s, ans)
  \/ \E s \in Slots : ResponseMwDone(s)
  \/ \E s \in Slots : Return(s)

Spec == Init /\ [][Next]_vars

----------------------------------------------------------------------------
(* Properties of the dispatcher *)

Settled(kind) == {s \in Slots : slots[s].pc = "done" /\ slots[s].kind = kind}

\* the responses are one per envelope: their ids are the envelopes' ids, each once
OnePerEnvelope(sl) ==
  /\ sl.answer.t = "data"
  /\ sl.answer.v.t = "arr"
  /\ Len(sl.answer.v.v) = Len(sl.payloads)
  /\ \A i \in 1..Len(sl.payloads) :
       Cardinality({j \in 1..Len(sl.answer.v.v) :
                      IdOf(sl.answer.v.v[j]) = IdOf(sl.payloads[i])}) = 1

\* the response (after response middleware) that carries the given id
ResponseWithId(sl, id) ==
  sl.results[CHOOSE j \in 1..Len(sl.results) : IdOf(sl.results[j]) = id]

\* the array a batch resolved with
Output(sl) == sl.outcome.v.v

\* C1: when the transport returns one response per envelope, in any order,
\* batchRpc resolves and slot i of the output holds the outcome of the response
\* whose id is the id given to call i (its {error}, or its normalised result
\* when normalisation of that response succeeds).
C1_SubmissionOrder ==
  \A s \in Settled("batch") :
    LET sl == slots[s]
    IN (OnePerEnvelope(sl) /\ sl.failedAt \in {"none", "finish"}) =>
         /\ sl.outcome.t = "resolved"
         /\ Len(Output(sl)) = Len(sl.calls)
         /\ \A i \in 1..Len(sl.calls) :
              LET expected == BatchSlot(ResponseWithId(sl, IdOf(sl.payloads[i])))
              IN ~IsThrow(expected) => Output(sl)[i] = expected

\* the envelopes an invocation builds when it starts
Built(s) == IF slots[s].pc = "idle" THEN slots'[s].payloads ELSE <<>>

\* C2: every envelope carries an id strictly greater than the id of every
\* envelope built before it, by an earlier invocation or earlier in the same
\* batch, so no two envelopes of one instance share an id.
C2_IdsStrictlyIncrease ==
  [][\A s \in Slots :
       \A i \in 1..Len(Built(s)) :
         /\ \A id \in issued : id < IdOf(Built(s)[i])
         /\ \A j \in 1..(i - 1) : IdOf(Built(s)[j]) < IdOf(Built(s)[i])]_vars

\* C3: whenever batchRpc returns, the returned array has exactly as many slots
\* as the list of calls.
C3_OutputLength ==
  \A s \in Settled("batch") :
    slots[s].outcome.t = "resolved" => Len(Output(slots[s])) = Len(slots[s].calls)

\* C4: on a provider with a URL, batchRpc never rejects, whatever the
\* transport and the middleware do, and a single call that fails rejects.
C4_BatchNeverRejects ==
  /\ \A s \in Settled("batch") :
       ~UrlNotSet(url) => slots[s].outcome.t = "resolved"
  /\ \A s \in Settled("rpc") :
       slots[s].failedAt # "none" => slots[s].outcome.t = "rejected"

\* the error object of a transport failure's slot: its message, or the thrown
\* value itself when it has no message
FailureText(e) == IF Truthy(Get(e, "message")) THEN Get(e, "message") ELSE e

\* C5 as stated: when the transport fails for a batch of n calls, batchRpc
\* resolves with n slots {error: m}, m the message of the transport failure.
C5_TransportFailureMessage ==
  \A s \in Settled("batch") :
    LET sl == slots[s]
    IN sl.answer.t = "fail" =>
         /\ sl.outcome.t = "resolved"
         /\ Len(Output(sl)) = Len(sl.calls)
         /\ \A i \in 1..Len(sl.calls) :
              Output(sl)[i] = Obj(<< <<"error", Get(sl.answer.v, "message")>> >>)

\* C5 amended: when the transport fails for a batch of n calls, batchRpc
\* resolves with n equal slots {error: m}, where m is the message of the
\* failure when it has a non-empty one and the thrown value itself otherwise;
\* no slot holds a result.
C5_TransportFailureSlots ==
  \A s \in Settled("batch") :
    LET sl == slots[s]
    IN sl.answer.t = "fail" =>
         /\ sl.outcome.t = "resolved"
         /\ Len(Output(sl)) = Len(sl.calls)
         /\ \A i \in 1..Len(sl.calls) :
              Output(sl)[i] = Obj(<< <<"error", FailureText(sl.answer.v)>> >>)

C5_Witness ==
  \E s \in Settled("batch") :
    /\ Len(slots[s].calls) = MaxBatch
    /\ slots[s].answer = Fail(Str(<<"boom">>))

\* C6: in a batch whose transmission succeeded, slot j of the output is decided
\* by response j (in id order) alone: {error: e} when it carries the structured
\* error e, its normalised result otherwise.
C6_SlotsIndependent ==
  \A s \in Settled("batch") :
    LET sl == slots[s]
        sorted == SortById(sl.results)
    IN (sl.answer.t = "data" /\ sl.failedAt \in {"none", "finish"}) =>
         /\ sl.outcome.t = "resolved"
         /\ \A j \in 1..Len(sorted) :
              ~IsThrow(BatchSlot(sorted[j])) =>
                 /\ j <= Len(Output(sl))
                 /\ Output(sl)[j] = BatchSlot(sorted[j])

\* the tags of the first k registered request middleware, in registration order
TagsUpTo(k) == [i \in 1..k |-> MwTag(requestMiddleware[i])]

C7_Applied ==
  \A s \in Slots :
    LET sl == slots[s]
    IN /\ sl.reqStarted - sl.reqDone \in {0, 1}
       /\ sl.pc = "reqmw" => (sl.reqStarted = sl.reqDone + 1 /\ sl.mwi = sl.reqStarted)
       /\ sl.reqDone <= Len(requestMiddleware)
       /\ \A i \in 1..Len(sl.payloads) : TagsOf(sl.payloads[i]) = TagsUpTo(sl.reqDone)
       /\ sl.wire # <<>> =>
            /\ Len(sl.wire) = 1
            /\ sl.wire[1] = PostBody(sl.kind, sl.payloads)

C7_Transmit ==
  \A s \in Slots :
    (slots[s].wire = <<>> /\ slots'[s].wire # <<>>) =>
       slots'[s].reqDone = Len(requestMiddleware')

\* C7: request middleware run on each envelope in registration order, one
\* starting only after the one before it has completed, and the envelope
\* handed to the transport is the result of all of them: it carries their tags
\* in registration order.
C7_RequestMiddlewareOrder == []C7_Applied /\ [][C7_Transmit]_vars

C7_Witness ==
  \E s \in Slots :
    /\ slots[s].kind = "batch"
    /\ requestMiddleware = <<"tagA", "tagB">>
    /\ slots[s].wire # <<>>
    /\ Len(slots[s].payloads) = MaxBatch
    /\ \A i \in 1..Len(slots[s].payloads) :
         TagsOf(slots[s].wire[1].v[i]) = <<MwTag("tagA"), MwTag("tagB")>>

\* C8: on a provider whose URL is empty, rpc and batchRpc reject with
\* 'Provider URL is not set' before the transport is invoked, before any
\* request middleware runs and without consuming an id.
C8_UrlNotSet ==
  url = NoUrl =>
    /\ idCounter = 1
    /\ issued = {}
    /\ \A s \in Slots :
         LET sl == slots[s]
         IN /\ sl.pc \in {"idle", "done"}
            /\ sl.pc = "done" =>
                 /\ sl.outcome = Rejected(UrlNotSetError)
                 /\ sl.wire = <<>>
                 /\ sl.reqStarted = 0
                 /\ sl.payloads = <<>>

C8_Witness ==
  /\ url = NoUrl
  /\ requestMiddleware # <<>>
  /\ started = MaxInvocations
  /\ \E s \in Slots : slots[s].pc = "done"

\* the response of a single call once the response middleware have run
FinalResponse(sl) == sl.results[1]

\* the single call reached the classification of its response
Classified(sl) == sl.answer.t = "data" /\ sl.failedAt # "respmw"

NamesMethod(message, method) == \E i \in 1..Len(message.v) : message.v[i] = method

\* a structured error is reported as an RpcError
StructuredErrorIsRpcError(sl) ==
  (Classified(sl) /\ Truthy(Get(FinalResponse(sl), "error"))) =>
     /\ sl.outcome.t = "rejected"
     /\ sl.outcome.v.t = "err"
     /\ sl.outcome.v.name = "RpcError"

\* C10 as stated: whatever the transport fails with, the single call rejects
\* with an error that is not an RpcError and whose message names the method.
C10_EveryFailureNamesMethod ==
  \A s \in Settled("rpc") :
    LET sl == slots[s]
    IN /\ sl.answer.t = "fail" =>
            /\ sl.outcome.t = "rejected"
            /\ sl.outcome.v.t = "err"
            /\ sl.outcome.v.name # "RpcError"
            /\ NamesMethod(sl.outcome.v.message, sl.calls[1].method)
       /\ StructuredErrorIsRpcError(sl)

\* C10 amended: when the transport fails with an AxiosError, the single call
\* rejects with a plain Error whose message is 'RPC request failed for method
\* "<method>": <message of the failure>'; any other value the transport fails
\* with is rethrown unchanged; a structured error is reported as an RpcError,
\* never as a transport error.
C10_AxiosFailureNamesMethod ==
  \A s \in Settled("rpc") :
    LET sl == slots[s]
        f == sl.answer.v
    IN /\ sl.answer.t = "fail" =>
            /\ sl.outcome.t = "rejected"
            /\ IF f.t = "err" /\ f.name = "AxiosError"
               THEN /\ sl.outcome.v =
                         ErrorOf(<<"RPC request failed for method \"", sl.calls[1].method,
                                   "\": ">> \o f.message.v)
                    /\ NamesMethod(sl.outcome.v.message, sl.calls[1].method)
               ELSE sl.outcome.v = f
       /\ StructuredErrorIsRpcError(sl)

C10_Witness ==
  \E s \in Settled("rpc") :
    /\ slots[s].answer = Fail(AxiosErrorOf(<<"Network error">>))
    /\ slots[s].calls[1].method = "eth_blockNumber"

\* the value a response without a structured error stands for under the
\* extraction rule: its result field when it has one, else the whole response
Extracted(response) ==
  IF Get(response, "result") # Undefined THEN Get(response, "result") ELSE response

\* C11: a single call whose response carries no structured error returns the
\* normalisation of the result field whenever the response has one, whatever
\* its value (false, 0, null, ''), and of the whole response only when it has
\* none; each element of a batch that completed is treated the same way.
C11_ResultExtracted ==
  /\ \A s \in Settled("rpc") :
       LET sl == slots[s]
           expected == normalizeResponse(Extracted(FinalResponse(sl)))
       IN (Classified(sl) /\ ~Truthy(Get(FinalResponse(sl), "error"))) =>
            IF IsThrow(expected)
            THEN sl.outcome.t = "rejected"
            ELSE sl.outcome = Resolved(expected)
  /\ \A s \in Settled("batch") :
       LET sl == slots[s]
           sorted == SortById(sl.results)
       IN (sl.answer.t = "data" /\ sl.failedAt = "none") =>
            \A j \in 1..Len(sorted) :
              ~Truthy(Get(sorted[j], "error")) =>
                 Output(sl)[j] = normalizeResponse(Extracted(sorted[j]))

----------------------------------------------------------------------------
(* provider.ts: getBalance *)

\* Number(s) for a decimal string: a natural for a string of digits, else the
\* double nearest to whole.frac, written by that decimal
NumberOf(s) ==
  LET parts == SplitDot(s)
  IN IF Len(parts) = 1 THEN JsNumber(NumberOfDecString(s))
     ELSE Fraction(DigitsOf(parts[1]), DigitsOf(parts[2]))

\* getBalance(address, tag) when the transport answers its eth_getBalance call
\* with the given response
getBalance(response) ==
  LET sl == RpcFinish([IdleSlot EXCEPT !.kind = "rpc",
                                       !.calls = <<[method |-> "eth_getBalance"]>>], response)
  IN IF sl.outcome.t = "rejected" THEN Throw(sl.outcome.v)
     ELSE LET convertedBalance == weiToNec(sl.outcome.v)
          IN IF IsThrow(convertedBalance) THEN convertedBalance
             ELSE NumberOf(convertedBalance.v)

----------------------------------------------------------------------------
(* The functions of utils.ts, and getBalance, applied to one input each *)

MaxLen == 3       \* longest wire string that is enumerated character by character
MaxFraction == 2  \* largest scale below the default one
MaxDepth == 2     \* nesting depth of the values handed to normalizeResponse
MaxFields == 2    \* fields of a payload handed to serializeForRpc

RECURSIVE StringsOfLen(_, _)
StringsOfLen(alphabet, n) ==
  IF n = 0 THEN {<<>>}
  ELSE {Append(s, c) : s \in StringsOfLen(alphabet, n - 1), c \in alphabet}

StringsUpTo(alphabet, n) == UNION {StringsOfLen(alphabet, k) : k \in 0..n}

Address ==
  <<"0","x","1","2","3","4","5","6","7","8","9","0","a","b","c","d",
    "e","f","1","2","3","4","5","6","7","8","9","0","A","B","C","D",
    "E","F","1","2","3","4","5","6","7","8">>

OneEther ==
  <<"0","x","d","e","0","b","6","b","3","a","7","6","4","0","0","0",
    "0">>

OneAndAHalfEther ==
  <<"0","x","1","4","d","1","1","2","0","d","7","b","1","6","0","0",
    "0","0">>

Below2To53 ==
  <<"0","x","1","f","f","f","f","f","f","f","f","f","f","f","f","f">>

Exactly2To53 ==
  <<"0","x","2","0","0","0","0","0","0","0","0","0","0","0","0","0">>

Above2To53 ==
  <<"0","x","2","0","0","0","0","0","0","0","0","0","0","0","0","1">>

Above2To53Even ==
  <<"0","x","2","0","0","0","0","0","0","0","0","0","0","0","0","2">>

OneEtherAndOneWei ==
  <<"0","x","d","e","0","b","6","b","3","a","7","6","4","0","0","0",
    "1">>

\* wire strings: every string of a few characters over hex digits, the prefix,
\* a letter that is no hex digit and a blank, and longer ones met in practice
WireStrings ==
  StringsUpTo({"0", "x", "1", "a", "F", "z", " "}, MaxLen)
    \cup { <<"0","x","z","z">>, <<"x","y","z">>, <<"0","x","2","a">>, <<"0","X","1","F">>,
           <<" ","0","x","2","a"," ">>,
           OneEther, OneAndAHalfEther, OneEtherAndOneWei,
           Below2To53, Exactly2To53, Above2To53, Above2To53Even }

\* strings of 40 hex digits and more after the prefix, and near misses
LongStrings ==
  { Address, Address \o <<"0","0">>, Front(Address), <<"0","X">> \o SubSeq(Address, 3, Len(Address)),
    SubSeq(Address, 3, Len(Address)), Front(Address) \o <<"z">> }

Scales == 0..MaxFraction \cup {DEFAULT_DECIMALS}

\* what callers hand to parseUnits: decimal strings, malformed strings, and
\* numbers whose decimal expansion is exact
WholeParts ==
  { <<"0">>, <<"1">>, <<"1","5">>,
    <<"9","0","0","7","1","9","9","2","5","4","7","4","0","9","9","3">> }

Fractions ==
  StringsUpTo({"0", "5"}, MaxFraction + 1)
    \cup { <<"0","0","0","0","0","0","0","0","0","0","0","0","0","0","0","0","0","1">>,
           <<"0","0","0","0","0","0","0","0","0","0","0","0","0","0","0","0","0","0","1">> }

DecimalStrings ==
  WholeParts \cup {w \o <<".">> \o f : w \in WholeParts, f \in Fractions}

MalformedDecimals ==
  { <<>>, <<".","5">>, <<"a","b","c">>, <<"1",".","2",".","5">>, <<"0","x","1">> }

ExactNumbers ==
  { Num(0), Num(1), Num(15),
    Fraction(<<1>>, <<5>>), Fraction(<<1>>, <<2,5>>), Fraction(<<0>>, <<1,2,5>>),
    Fraction(<<0>>, <<7,5>>) }

ParseInputs ==
  {Str(s) : s \in DecimalStrings \cup MalformedDecimals} \cup ExactNumbers

\* base-unit amounts handed to formatUnits
FormatInputs ==
  { Str(OneEther), Str(OneAndAHalfEther), Str(<<"0","x","0">>), Str(<<"0","x","1">>),
    Str(<<"1","0","5">>), Num(105), Str(<<"0","x">>),
    [t |-> "num", big |-> <<1,0,0,0,0,0,0,0,0,0,0,0,0,0,0,0,0,0,0>>] }

\* the values of the fields of a response
Leaves ==
  { Str(<<"0","x","2","a">>), Str(<<"0","x">>), Str(Address), Str(<<"latest">>),
    Str(OneEtherAndOneWei), Str(<<"0","x","z","z">>), Num(7), Null }

ResponseFieldNames == {"to", "hash", "value", "logs"}

\* a value one level deeper: a field of an object, next to an identifier
\* field or alone, or an element of an array, alone or after a hex string
Wrap(v) ==
  {Obj(<< <<k, v>> >>) : k \in ResponseFieldNames}
    \cup { Arr(<<v>>), Arr(<<Str(<<"0","x","1">>), v>>),
           Obj(<< <<"address", Str(Address)>>, <<"balance", v>> >>) }

RECURSIVE Nested(_)
Nested(depth) ==
  IF depth = 0 THEN Leaves
  ELSE Nested(depth - 1) \cup UNION {Wrap(v) : v \in Nested(depth - 1)}

NormalizeInputs ==
  {Null, Bool(TRUE), Bool(FALSE), Undefined}
    \cup {Str(s) : s \in WireStrings \cup LongStrings}
    \cup Nested(MaxDepth)

\* flat payloads: up to MaxFields fields with different names
PayloadValues ==
  { Num(1), Fraction(<<1>>, <<5>>), Str(<<"4","2">>), Str(<<"0","x","2","a">>),
    Str(<<"1",".","5">>), Str(<<>>), Null }

PayloadFieldNames == DOMAIN FieldNameChars

RECURSIVE PayloadsOf(_)
PayloadsOf(n) ==
  IF n = 0 THEN {<<>>}
  ELSE {Append(p, <<k, v>>) :
          p \in {q \in PayloadsOf(n - 1) : Len(q) = n - 1},
          k \in PayloadFieldNames, v \in PayloadValues}
         \cup PayloadsOf(n - 1)

Payloads ==
  {Obj(p) : p \in {q \in PayloadsOf(MaxFields) :
                     \A i, j \in 1..Len(q) : q[i][1] = q[j][1] => i = j}}

\* what the node answers to eth_getBalance
BalanceResponses ==
  {ResponseObject(1, <<"result", Str(w)>>) :
     w \in { OneEther, OneAndAHalfEther, OneEtherAndOneWei, <<"0","x","1">>,
             <<"0","x","0">>, Above2To53 }}

\* no function has been called yet
Fresh == op = "none"

Called(name, arguments, result, origin) ==
  /\ op' = name
  /\ args' = arguments
  /\ ret' = result
  /\ before' = origin
  /\ UNCHANGED <<pvars, wvars, cvars>>

\* the inputs of hexToDecimalString: strings, and a value that is no string
HexInputs == {Str(s) : s \in WireStrings} \cup {Num(5)}

CallHexToDecimalString ==
  /\ Fresh
  /\ \E hex \in HexInputs :
       Called("hexToDecimalString", <<hex>>, hexToDecimalString(hex), <<>>)

CallParseUnits ==
  /\ Fresh
  /\ \E value \in ParseInputs, decimals \in Scales :
       Called("parseUnits", <<value, decimals>>, parseUnits(value, decimals), <<>>)

CallFormatUnits ==
  /\ Fresh
  /\ \E value \in FormatInputs, decimals \in Scales :
       Called("formatUnits", <<value, decimals>>, formatUnits(value, decimals), <<>>)

\* formatUnits(parseUnits(x, s), s)
FormatParsed ==
  /\ op = "parseUnits"
  /\ ~IsThrow(ret)
  /\ Called("formatUnits", <<ret, args[2]>>, formatUnits(ret, args[2]), args)

CallNormalizeResponse ==
  /\ Fresh
  /\ \E resp \in NormalizeInputs :
       Called("normalizeResponse", <<resp>>, normalizeResponse(resp), <<>>)

CallSerializeForRpc ==
  /\ Fresh
  /\ \E payload \in Payloads :
       Called("serializeForRpc", <<payload>>, serializeForRpc(payload), <<>>)

\* normalizeResponse(serializeForRpc(p))
NormalizeSerialized ==
  /\ op = "serializeForRpc"
  /\ before = <<>>
  /\ ~IsThrow(ret)
  /\ Called("normalizeResponse", <<ret>>, normalizeResponse(ret), args)

\* serializeForRpc(serializeForRpc(p))
SerializeSerialized ==
  /\ op = "serializeForRpc"
  /\ before = <<>>
  /\ ~IsThrow(ret)
  /\ Called("serializeForRpc", <<ret>>, serializeForRpc(ret), args)

CallGetBalance ==
  /\ Fresh
  /\ \E response \in BalanceResponses :
       Called("getBalance", <<response>>, getBalance(response), <<>>)

UtilsInit ==
  /\ url = ProviderUrl
  /\ idCounter = 1
  /\ requestMiddleware = <<>>
  /\ responseMiddleware = <<>>
  /\ slots = [s \in Slots |-> IdleSlot]
  /\ issued = {}
  /\ started = 0
  /\ op = "none"
  /\ args = <<>>
  /\ ret = Undefined
  /\ before = <<>>
  /\ SubscriptionInit
  /\ DeployIdle

UtilsNext ==
  \/ CallHexToDecimalString
  \/ CallParseUnits
  \/ CallFormatUnits
  \/ FormatParsed
  \/ CallNormalizeResponse
  \/ CallSerializeForRpc
  \/ NormalizeSerialized
  \/ SerializeSerialized
  \/ CallGetBalance

UtilsSpec == UtilsInit /\ [][UtilsNext]_vars

----------------------------------------------------------------------------
(* Properties of the unit conversions *)

\* a decimal string: an integer without redundant leading zeros, alone or
\* followed by a point and a fraction
IsDecimalString(x) ==
  LET parts == SplitDot(x)
  IN /\ Len(parts) \in {1, 2}
     /\ parts[1] # <<>>
     /\ AllDecDigits(parts[1])
     /\ (Len(parts[1]) > 1 => parts[1][1] # "0")
     /\ (Len(parts) = 2 => AllDecDigits(parts[2]))

WholeOf(x) == SplitDot(x)[1]
FractionOf(x) == IF Len(SplitDot(x)) = 2 THEN SplitDot(x)[2] ELSE <<>>

\* x without the trailing zeros of its fraction, and without the point when
\* nothing is left of the fraction
TrailingZerosRemoved(x) ==
  LET significant ==
        IF \E i \in 1..Len(FractionOf(x)) : FractionOf(x)[i] # "0"
        THEN SubSeq(FractionOf(x), 1,
                    CHOOSE i \in 1..Len(FractionOf(x)) :
                      /\ FractionOf(x)[i] # "0"
                      /\ \A j \in (i + 1)..Len(FractionOf(x)) : FractionOf(x)[j] = "0")
        ELSE <<>>
  IN IF significant = <<>> THEN WholeOf(x) ELSE WholeOf(x) \o <<".">> \o significant

\* C12: for every scale s and every decimal string x with at most s
\* fractional digits, parseUnits(x, s) succeeds and formatUnits of its result
\* at the same scale is x without its trailing fractional zeros; this covers
\* s = 0, x = "0" and amounts above 2^53.
C12_RoundTrip ==
  /\ (/\ op = "parseUnits"
      /\ args[1].t = "str"
      /\ IsDecimalString(args[1].v)
      /\ Len(FractionOf(args[1].v)) <= args[2])
       => ~IsThrow(ret)
  /\ (/\ op = "formatUnits"
      /\ before # <<>>
      /\ before[1].t = "str"
      /\ IsDecimalString(before[1].v))
       => ret = Str(TrailingZerosRemoved(before[1].v))

C12_Witness ==
  /\ op = "formatUnits"
  /\ before = <<Str(<<"9","0","0","7","1","9","9","2","5","4","7","4","0","9","9","3",
                      ".","0","5","0">>), DEFAULT_DECIMALS>>
  /\ ret = Str(<<"9","0","0","7","1","9","9","2","5","4","7","4","0","9","9","3",
                 ".","0","5">>)

\* the fractional digits of a decimal given as a string or as a number
FractionDigits(value) ==
  IF value.t = "str" THEN DigitsOf(FractionOf(value.v))
  ELSE IF IsFraction(value) THEN value.frac
  ELSE <<>>

\* the whole digits of a decimal given as a string or as a number
WholeDigits(value) ==
  IF value.t = "str" THEN DigitsOf(WholeOf(value.v))
  ELSE IF IsFraction(value) THEN value.whole
  ELSE NaturalDigits(value)

IsDecimal(value) == value.t = "num" \/ IsDecimalString(value.v)

\* the wire string is the hex of the number with the given decimal digits
HexDenotes(wire, ds) ==
  /\ wire.t = "str"
  /\ StartsWith0x(wire.v)
  /\ MatchesHex(wire.v)
  /\ ConvertBase(DigitsOf(SubSeq(wire.v, 3, Len(wire.v))), 16, 10) = StripZeros(ds)

TooManyDecimalPlaces(result) ==
  /\ IsThrow(result)
  /\ result.v.name = "Error"
  /\ Head(result.v.message.v) = "parseUnits: too many decimal places (max "

\* C13: parseUnits(value, scale) fails with the 'too many decimal places' error
\* for every decimal, string or number, that has more fractional digits than
\* scale, and otherwise returns exactly the hex of value x 10^scale.
C13_OverflowPrecision ==
  (op = "parseUnits" /\ IsDecimal(args[1])) =>
     IF Len(FractionDigits(args[1])) > args[2]
     THEN TooManyDecimalPlaces(ret)
     ELSE HexDenotes(ret, WholeDigits(args[1]) \o FractionDigits(args[1])
                            \o Zeros(args[2] - Len(FractionDigits(args[1]))))

----------------------------------------------------------------------------
(* Properties of hexToDecimalString *)

\* the hex digits of a string made of an optional 0x prefix, in either case,
\* and hex digits in either case
HexDigitsOf(s) == IF Len(s) >= 2 /\ s[1] = "0" /\ s[2] \in {"x", "X"} THEN SubSeq(s, 3, Len(s)) ELSE s

\* the string is the empty-hex form
IsEmptyHex(s) == s \in {<<"0", "x">>, <<"0", "X">>}

\* the string is one or more hex digits, with or without the prefix
IsHexForm(s) ==
  /\ HexDigitsOf(s) # <<>>
  /\ \A i \in 1..Len(HexDigitsOf(s)) :
       HexDigitsOf(s)[i] \in {"0","1","2","3","4","5","6","7","8","9",
                              "a","b","c","d","e","f","A","B","C","D","E","F"}

InvalidHexFormat(result) ==
  /\ IsThrow(result)
  /\ result.v.name = "Error"
  /\ Head(result.v.message.v) = "hexToDecimalString: invalid hex string \""

\* the result is a number, and below 2^53 it is the integer the hex digits
\* encode, without any scale
UnscaledNumber(result, s) ==
  /\ result.t = "num"
  /\ ~IsFraction(result)
  /\ Len(BitsOfHex(DigitsOf(HexDigitsOf(s)))) <= DoubleMantissa =>
       NaturalDigits(result) = ConvertBase(DigitsOf(HexDigitsOf(s)), 16, 10)

HexToDecimalOf(result, s) ==
  IF IsEmptyHex(s) THEN result = Num(0)
  ELSE IF IsHexForm(s) THEN UnscaledNumber(result, s)
  ELSE InvalidHexFormat(result)

\* C14 as stated: hexToDecimalString returns 0 for "0x", accepts hex digits in
\* either case with or without the prefix and returns the integer they encode,
\* unscaled, and fails with the invalid-hex error for every other string.
C14_InvalidHexFormat ==
  (op = "hexToDecimalString" /\ args[1].t = "str") => HexToDecimalOf(ret, args[1].v)

\* C14 amended: the same, for the string with the whitespace around it
\* removed: blanks before and after the wire value are ignored, so a padded
\* hex string is accepted and a padded "0x" yields 0.
C14_InvalidHexFormatTrimmed ==
  (op = "hexToDecimalString" /\ args[1].t = "str") => HexToDecimalOf(ret, Trim(args[1].v))

C14_Witness ==
  /\ op = "hexToDecimalString"
  /\ args[1] = Str(<<"0", "x", "z", "z">>)
  /\ InvalidHexFormat(ret)


\* the integer a result denotes, as decimal digits: a number denotes its
\* value, a string the integer it spells
Denoted(result) ==
  IF result.t = "num" THEN NaturalDigits(result) ELSE StripZeros(DigitsOf(result.v))

\* the decimal string of a wire value passes through numeric parsing unchanged
RoundTrips(s) == NumberOfDecString(CharsOf(ConvertBase(DigitsOf(HexDigitsOf(s)), 16, 10)))
                   = ConvertBase(DigitsOf(HexDigitsOf(s)), 16, 10)

\* C15: for every wire value, whatever its width, hexToDecimalString denotes
\* exactly the integer the value encodes: a number when the decimal string
\* passes through numeric parsing without loss, the exact decimal string
\* otherwise.
C15_Lossless ==
  (op = "hexToDecimalString" /\ args[1].t = "str" /\ IsHexForm(Trim(args[1].v))) =>
    /\ ret.t \in {"num", "str"}
    /\ ~IsFraction(ret)
    /\ Denoted(ret) = ConvertBase(DigitsOf(HexDigitsOf(Trim(args[1].v))), 16, 10)
    /\ ret.t = "num" <=> RoundTrips(Trim(args[1].v))


----------------------------------------------------------------------------
(* Properties of normalizeResponse *)

SameValue(a, b) == a.t = b.t /\ a = b

IsHexPrefixed(v) == v.t = "str" /\ Len(v.v) >= 2 /\ v.v[1] = "0" /\ v.v[2] = "x"

\* the field names the specification lists as identifiers
NamedIdentifiers ==
  {"address", "hash", "from", "to", "transactionHash", "blockHash", "contractAddress"}

\* out has the shape of in: the same fields in the same order, the same
\* number of elements
SameShape(in, out) ==
  /\ out.t = in.t
  /\ Len(out.v) = Len(in.v)
  /\ in.t = "obj" => \A i \in 1..Len(in.v) : out.v[i][1] = in.v[i][1]

RECURSIVE IdentifiersKept(_, _)
\* every identifier field of in that holds a hex-prefixed string, at any
\* depth, holds the same string in out
IdentifiersKept(in, out) ==
  CASE in.t = "obj" ->
         /\ SameShape(in, out)
         /\ \A i \in 1..Len(in.v) :
              IF IsHexPrefixed(in.v[i][2])
              THEN in.v[i][1] \in NamedIdentifiers => SameValue(out.v[i][2], in.v[i][2])
              ELSE IdentifiersKept(in.v[i][2], out.v[i][2])
    [] in.t = "arr" ->
         /\ SameShape(in, out)
         /\ \A i \in 1..Len(in.v) : IdentifiersKept(in.v[i], out.v[i])
    [] OTHER -> TRUE

\* C16: normalizeResponse never alters an identifier field: in every object
\* of the input, at any depth, a field named address, hash, from, to,
\* transactionHash, blockHash or contractAddress that holds a hex-prefixed
\* string has the identical value in the output.
C16_IdentifiersKept ==
  (op = "normalizeResponse" /\ ~IsThrow(ret)) => IdentifiersKept(args[1], ret)

C16_Witness ==
  /\ op = "normalizeResponse"
  /\ args[1] = Obj(<< <<"logs", Obj(<< <<"to", Str(<<"0","x","2","a">>)>> >>)>> >>)
  /\ ret = args[1]


\* a hex-prefixed string that encodes an integer: the prefix alone, or the
\* prefix and hex digits
IsWireValue(v) == IsHexPrefixed(v) /\ (Len(v.v) = 2 \/ IsHexForm(v.v))

\* out is the decimal rendering of the integer that the hex-prefixed string
\* wire encodes: a string of decimal digits without redundant leading zeros
\* that converts back to the digits of wire
DecimalRendering(wire, out) ==
  /\ out.t = "str"
  /\ out.v # <<>>
  /\ \A i \in 1..Len(out.v) : out.v[i] \in {"0","1","2","3","4","5","6","7","8","9"}
  /\ Len(out.v) > 1 => out.v[1] # "0"
  /\ ConvertBase(DigitsOf(out.v), 10, 16) = StripZeros(DigitsOf(SubSeq(wire.v, 3, Len(wire.v))))

RECURSIVE HasUnparsable(_)
\* some non-identifier field that normalizeResponse visits holds a
\* hex-prefixed string that encodes no integer
HasUnparsable(in) ==
  CASE in.t = "obj" ->
         \E i \in 1..Len(in.v) :
           IF IsHexPrefixed(in.v[i][2])
           THEN in.v[i][1] \notin NamedIdentifiers /\ ~IsWireValue(in.v[i][2])
           ELSE HasUnparsable(in.v[i][2])
    [] in.t = "arr" -> \E i \in 1..Len(in.v) : HasUnparsable(in.v[i])
    [] OTHER -> FALSE

RECURSIVE FieldsConverted(_, _)
\* out is in with every hex-prefixed string of a non-identifier object field
\* replaced by its decimal rendering, objects held in fields and in arrays
\* treated alike, and every other field value the same
FieldsConverted(in, out) ==
  CASE in.t = "obj" ->
         /\ SameShape(in, out)
         /\ \A i \in 1..Len(in.v) :
              LET key == in.v[i][1]
                  val == in.v[i][2]
                  res == out.v[i][2]
              IN IF IsHexPrefixed(val)
                 THEN key \notin NamedIdentifiers => DecimalRendering(val, res)
                 ELSE IF val.t \in {"obj", "arr"} THEN FieldsConverted(val, res)
                 ELSE SameValue(res, val)
    [] in.t = "arr" ->
         /\ SameShape(in, out)
         /\ \A i \in 1..Len(in.v) :
              in.v[i].t \in {"obj", "arr"} => FieldsConverted(in.v[i], out.v[i])
    [] OTHER -> TRUE

\* C17: normalizeResponse replaces every hex-prefixed string held in a
\* non-identifier object field, whatever the name of the field, by the decimal
\* string of the same integer, multiplied by nothing; it does the same in the
\* objects and arrays held in fields, and copies every other field value
\* as it is.
C17_FieldsConverted ==
  (op = "normalizeResponse" /\ args[1].t = "obj") =>
    IF HasUnparsable(args[1]) THEN IsThrow(ret)
    ELSE ~IsThrow(ret) /\ FieldsConverted(args[1], ret)

C17_Witness ==
  /\ op = "normalizeResponse"
  /\ args[1] = Obj(<< <<"address", Str(Address)>>,
                      <<"balance", Obj(<< <<"value", Str(OneEtherAndOneWei)>> >>)>> >>)
  /\ ret = Obj(<< <<"address", Str(Address)>>,
                  <<"balance", Obj(<< <<"value", Str(<<"1","0","0","0","0","0","0","0","0","0",
                                                       "0","0","0","0","0","0","0","0","1">>)>> >>)>> >>)


----------------------------------------------------------------------------
(* Properties of serializeForRpc *)

\* a number, or a string of one or more decimal digits
IsNumericOrDigits(val) ==
  \/ val.t = "num"
  \/ /\ val.t = "str"
     /\ val.v # <<>>
     /\ \A i \in 1..Len(val.v) : val.v[i] \in {"0","1","2","3","4","5","6","7","8","9"}

\* among the field names of the payloads: the native value field, and the
\* names that contain amount or balance in some case
NativeValueNames == {"value"}
AmountLikeNames == {"amount", "tokenBalance"}

\* the digits of val x 10^18
ScaledDigits(val) ==
  WholeDigits(val) \o FractionDigits(val) \o Zeros(DEFAULT_DECIMALS - Len(FractionDigits(val)))

\* what the field key holding val has to become
FieldSerialized(key, val, res) ==
  IF ~IsNumericOrDigits(val) THEN SameValue(res, val)
  ELSE IF key \in NativeValueNames \cup AmountLikeNames THEN HexDenotes(res, ScaledDigits(val))
  ELSE HexDenotes(res, WholeDigits(val))

\* a plain-integer field holds a number with a fraction, which decimalToHex
\* does not convert
HasFractionalInteger(payload) ==
  \E i \in 1..Len(payload.v) :
    /\ payload.v[i][1] \notin NativeValueNames \cup AmountLikeNames
    /\ IsFraction(payload.v[i][2])

----------------------------------------------------------------------------
(* Properties of getBalance *)

\* C19: the balance returned for an eth_getBalance answer {result: w} is the
\* exact decimal string of the integer w divided by 10^18 ("1" for
\* 0xde0b6b3a7640000), never a floating-point number.
C19_BalanceDecimalString ==
  (op = "getBalance") =>
    /\ ret.t = "str"
    /\ IsDecimalString(ret.v)
    /\ Len(FractionDigits(ret)) <= DEFAULT_DECIMALS
    /\ HexDenotes(Get(args[1], "result"), ScaledDigits(ret))


----------------------------------------------------------------------------
(* Properties of normalizeResponse on top-level scalars *)

\* the prefix followed by 40 or more hex digits in either case
IsLongHex(s) ==
  /\ Len(s) >= 42
  /\ s[1] = "0" /\ s[2] = "x"
  /\ \A i \in 3..Len(s) :
       s[i] \in {"0","1","2","3","4","5","6","7","8","9",
                 "a","b","c","d","e","f","A","B","C","D","E","F"}

\* C20: normalizeResponse of null is the empty object, of a boolean the
\* boolean, of a string with 40 or more hex digits after the prefix the string
\* itself, and of any other string what hexToDecimalString makes of it: the
\* number 1 for "0x1", the invalid-hex error for a string that is not hex.
C20_TopLevelScalars ==
  (op = "normalizeResponse") =>
    CASE args[1].t = "null" -> ret = Obj(<<>>)
      [] args[1].t = "bool" -> SameValue(ret, args[1])
      [] args[1].t = "str" ->
           IF IsLongHex(args[1].v) THEN SameValue(ret, args[1])
           ELSE HexToDecimalOf(ret, Trim(args[1].v))
      [] OTHER -> TRUE

C20_Witness ==
  /\ op = "normalizeResponse"
  /\ args[1] = Str(Address)
  /\ ret = Str(Address)


----------------------------------------------------------------------------
(* Properties of the life of a single call *)

\* the position of an invocation on its way from the call to its outcome
Stage(sl) ==
  CASE sl.pc = "idle" -> 0
    [] sl.pc = "reqmw" -> 1
    [] sl.pc = "sent" -> 2
    [] sl.pc = "respmw" -> 3
    [] OTHER -> 4

\* the three outcomes the specification names
Succeeded(sl) == sl.outcome.t = "resolved"

StructuredError(sl) ==
  /\ sl.outcome.t = "rejected"
  /\ sl.answer.t = "data"
  /\ sl.outcome.v.t = "err"
  /\ sl.outcome.v.name = "RpcError"

TransportError(sl) ==
  /\ sl.outcome.t = "rejected"
  /\ sl.answer.t = "fail"

\* the other ways a call ends: no URL, a middleware that throws, a result
\* that cannot be normalised
Misconfigured(sl) ==
  /\ sl.outcome = Rejected(UrlNotSetError)
  /\ sl.payloads = <<>>

RequestMwFailed(sl) ==
  /\ sl.outcome.t = "rejected"
  /\ sl.answer = Undefined
  /\ sl.payloads # <<>>
  /\ sl.reqStarted = sl.reqDone + 1
  /\ requestMiddleware[sl.reqStarted] = "throws"

ResponseMwFailed(sl) ==
  /\ sl.outcome.t = "rejected"
  /\ sl.answer.t = "data"
  /\ \E i \in 1..Len(responseMiddleware) :
       responseMiddleware[i] \in {"throws", "throwsAxios", "throwsText"}
  /\ \/ sl.outcome.v.t = "str" /\ sl.outcome.v = MwText
     \/ sl.outcome.v.t = "err" /\ sl.outcome.v = MwError
     \/ sl.outcome.v.t = "err" /\ NamesMethod(sl.outcome.v.message, sl.calls[1].method)

NormalizationFailed(sl) ==
  /\ sl.outcome.t = "rejected"
  /\ sl.answer.t = "data"
  /\ sl.outcome.v.t = "err"
  /\ InvalidHexFormat(Throw(sl.outcome.v))

\* how many of the conditions hold
CountTrue(conditions) == Cardinality({i \in 1..Len(conditions) : conditions[i]})

\* the envelope is handed to the transport at most once, when the request
\* middleware are through, and never again
SentAtMostOnce(sl) ==
  /\ Len(sl.wire) <= 1
  /\ Stage(sl) \in {2, 3} => Len(sl.wire) = 1
  /\ Stage(sl) \in {0, 1} => sl.wire = <<>>

\* an invocation moves forward only, a settled one keeps its outcome until
\* its caller has taken it, and what was sent is not sent again
MovesForward(a, b) ==
  IF a.pc = "done" THEN b = a \/ b = IdleSlot
  ELSE /\ Stage(b) >= Stage(a)
       /\ b.wire # a.wire => (a.wire = <<>> /\ Stage(a) < 2 /\ Stage(b) = 2)
       /\ (Stage(a) < 2 /\ Stage(b) = 3) => FALSE

C21_Step ==
  \A s \in Slots :
    (slots[s].kind = "rpc" \/ slots'[s].kind = "rpc") => MovesForward(slots[s], slots'[s])

C21_ThreeOutcomes ==
  \A s \in Slots :
    LET sl == slots[s]
    IN sl.kind = "rpc" =>
         /\ SentAtMostOnce(sl)
         /\ sl.pc = "done" =>
              /\ Len(sl.wire) = 1
              /\ CountTrue(<<Succeeded(sl), StructuredError(sl), TransportError(sl)>>) = 1

C21_FiveOutcomes ==
  \A s \in Slots :
    LET sl == slots[s]
    IN sl.kind = "rpc" =>
         /\ SentAtMostOnce(sl)
         /\ sl.pc = "done" =>
              /\ CountTrue(<<Succeeded(sl), StructuredError(sl), TransportError(sl),
                             Misconfigured(sl), RequestMwFailed(sl),
                             ResponseMwFailed(sl), NormalizationFailed(sl)>>) = 1
              /\ Len(sl.wire) = (IF Misconfigured(sl) \/ RequestMwFailed(sl) THEN 0 ELSE 1)

\* C21 as stated: every single call goes from Built through the request
\* middleware, Sent and the response middleware to exactly one of Succeeded,
\* StructuredError and TransportError, and its envelope is transmitted at most
\* once, never again after an error.
C21_Lifecycle == []C21_ThreeOutcomes /\ [][C21_Step]_vars

\* C21 amended: every single call moves forward only through Built, request
\* middleware, Sent and response middleware, and settles exactly once, as
\* Succeeded, StructuredError or TransportError, or else rejected because the
\* URL is missing, a middleware threw or the result could not be normalised;
\* a call without URL or with a throwing request middleware is never sent,
\* every other call is transmitted exactly once and never again.
C21_LifecycleWithFailures == []C21_FiveOutcomes /\ [][C21_Step]_vars

C21_Witness ==
  \E s \in Slots :
    /\ slots[s].kind = "rpc"
    /\ slots[s].pc = "done"
    /\ TransportError(slots[s])
    /\ Len(slots[s].wire) = 1
    /\ requestMiddleware # <<>>


----------------------------------------------------------------------------
(* Properties of the response middleware of a single call *)

RECURSIVE ResponseAfter(_, _)
\* what the first k registered response middleware make of the answer of the
\* transport, each given the return value of the one before it and the
\* envelope of the call; a throw ends the chain
ResponseAfter(sl, k) ==
  IF k = 0 THEN sl.answer.v
  ELSE LET previous == ResponseAfter(sl, k - 1)
       IN IF IsThrow(previous) THEN previous
          ELSE ApplyResponseMw(responseMiddleware[k], previous, sl.payloads[1])

\* the outcome that classification and normalisation give to a response
OutcomeOf(sl, response) ==
  IF Truthy(Get(response, "error"))
  THEN /\ sl.outcome.t = "rejected"
       /\ sl.outcome.v.t = "err"
       /\ sl.outcome.v.name = "RpcError"
       /\ sl.outcome.v.code = Get(Get(response, "error"), "code")
  ELSE LET value == normalizeResponse(OrElse(Get(response, "result"), response))
       IN IF IsThrow(value)
          THEN sl.outcome.t = "rejected" /\ SameValue(sl.outcome.v, value.v)
          ELSE sl.outcome = Resolved(value)

\* C22: in a single call the response middleware run one after the other in
\* registration order once the transport has answered, each on the return
\* value of the one before it and with the envelope of the call; the error
\* classification and the normalisation are applied to what the last one
\* returned, and when one of them throws the call rejects with what it threw.
C22_ResponseMiddlewareOrder ==
  \A s \in Slots :
    LET sl == slots[s]
        n == Len(responseMiddleware)
    IN sl.kind = "rpc" =>
         /\ sl.pc = "respmw" =>
              /\ sl.answer.t = "data"
              /\ sl.mwi \in 1..n
              /\ sl.results = <<ResponseAfter(sl, sl.mwi - 1)>>
         /\ (sl.pc = "done" /\ sl.answer.t = "data") =>
              IF IsThrow(ResponseAfter(sl, n))
              THEN /\ sl.outcome.t = "rejected"
                   /\ SameValue(sl.outcome.v, ResponseAfter(sl, n).v)
              ELSE OutcomeOf(sl, ResponseAfter(sl, n))


----------------------------------------------------------------------------
(* Properties of normalizeResponse applied to the output of serializeForRpc *)

\* a whole-unit integer: a natural number, or a string of decimal digits
IsWholeUnit(val) == IsNumericOrDigits(val) /\ ~IsFraction(val)

\* the decimal string of the integer with the given decimal digits
DecimalStringOf(ds) == Str(CharsOf(StripZeros(ds)))

\* normalizeResponse has been applied to what serializeForRpc made of a payload
Normalized == op = "normalizeResponse" /\ before # <<>>

\* the payload that was serialized
Original == before[1].v

\* the field named key after serialization and normalization
AfterBoth(key) == Get(ret, key)

\* C23 as stated: after serialization and normalization a field named value,
\* or whose name contains amount or balance, that held the whole-unit integer
\* x holds the decimal string of x * 10^18, and every other field that held
\* such an x holds the decimal string of x
C23_NotInverse ==
  Normalized =>
    /\ ret.t = "obj"
    /\ \A i \in 1..Len(Original) :
         IsWholeUnit(Original[i][2]) =>
           SameValue(AfterBoth(Original[i][1]),
                     IF Original[i][1] \in NativeValueNames \cup AmountLikeNames
                     THEN DecimalStringOf(WholeDigits(Original[i][2]) \o Zeros(DEFAULT_DECIMALS))
                     ELSE DecimalStringOf(WholeDigits(Original[i][2])))

\* C23, amended: the same, except that under an identifier name the field
\* keeps the hex string that serialization made of x
C23_NotInverseButIdentifiers ==
  Normalized =>
    /\ ret.t = "obj"
    /\ \A i \in 1..Len(Original) :
         IsWholeUnit(Original[i][2]) =>
           SameValue(AfterBoth(Original[i][1]),
                     IF Original[i][1] \in NativeValueNames \cup AmountLikeNames
                     THEN DecimalStringOf(WholeDigits(Original[i][2]) \o Zeros(DEFAULT_DECIMALS))
                     ELSE IF Original[i][1] \in IdentifierFields
                     THEN HexOf(StripZeros(WholeDigits(Original[i][2])))
                     ELSE DecimalStringOf(WholeDigits(Original[i][2])))

\* one whole unit in the field value comes back as 10^18, and 42 in the
\* field gas comes back as 42
C23_Witness ==
  /\ Normalized
  /\ Original = << <<"value", Num(1)>>, <<"gas", Str(<<"4","2">>)>> >>
  /\ AfterBoth("value") = Str(<<"1","0","0","0","0","0","0","0","0","0","0","0","0","0","0","0","0","0","0">>)
  /\ AfterBoth("gas") = Str(<<"4","2">>)


----------------------------------------------------------------------------
(* Properties of normalizeResponse on arrays *)

\* a JSON scalar: null, a boolean, a number or a string
IsScalar(x) == x.t \in {"null", "bool", "num", "str"}

\* out is what the element in of an array has to become: a scalar stays as it
\* is, anything else is normalized on its own
ElementNormalized(in, out) ==
  IF IsScalar(in) THEN SameValue(out, in) ELSE SameValue(out, normalizeResponse(in))

\* out is the array in, element by element
ArrayNormalized(in, out) ==
  /\ out.t = "arr"
  /\ Len(out.v) = Len(in.v)
  /\ \A i \in 1..Len(in.v) : ElementNormalized(in.v[i], out.v[i])

\* normalizeResponse returned for a value given to it directly
NormalizedDirectly == op = "normalizeResponse" /\ before = <<>> /\ ~IsThrow(ret)

\* C24: normalizeResponse on an array returns an array of the same length and
\* order in which every scalar element is passed through unchanged and every
\* other element is replaced by its normalization, and it does the same to an
\* array held in a field of an object
C24_ArraysElementwise ==
  NormalizedDirectly =>
    /\ args[1].t = "arr" => ArrayNormalized(args[1], ret)
    /\ args[1].t = "obj" =>
         \A i \in 1..Len(args[1].v) :
           args[1].v[i][2].t = "arr" =>
             ArrayNormalized(args[1].v[i][2], Get(ret, args[1].v[i][1]))


----------------------------------------------------------------------------
(* Properties of serializeForRpc applied to its own output *)

\* serializeForRpc has been applied to what it made of a payload
SerializedTwice == op = "serializeForRpc" /\ before # <<>>

\* C30: serializeForRpc applied to its own output returns that output: the
\* same fields in the same order, each with the value it had
C30_Idempotent ==
  SerializedTwice =>
    /\ ret.t = "obj"
    /\ Len(ret.v) = Len(args[1].v)
    /\ \A i \in 1..Len(ret.v) :
         /\ ret.v[i][1] = args[1].v[i][1]
         /\ SameValue(ret.v[i][2], args[1].v[i][2])

\* one whole unit in the field value and 42 in the field gas were made hex
\* by the first application and are the same hex after the second
C30_Witness ==
  /\ SerializedTwice
  /\ before[1] = Obj(<< <<"value", Num(1)>>, <<"gas", Str(<<"4","2">>)>> >>)
  /\ args[1] = Obj(<< <<"value", Str(OneEther)>>, <<"gas", Str(<<"0","x","2","a">>)>> >>)
  /\ ret = args[1]


----------------------------------------------------------------------------
(* Properties of the response middleware of a batch *)

\* C27: in a batch whose responses are one per envelope, in any order, a
\* response middleware that has been handed a response with id k has been
\* handed, with it, the envelope that was sent with id k
C27_EnvelopeOfResponse ==
  \A s \in Slots :
    (slots[s].kind = "batch" /\ OnePerEnvelope(slots[s])) =>
      \A i \in 1..Len(slots[s].results) :
        Get(slots[s].results[i], "envelopeId").t = "num" =>
          Get(slots[s].results[i], "envelopeId") = Get(slots[s].results[i], "id")


----------------------------------------------------------------------------
(* Properties of a batch that fails after its transmission succeeded *)

\* what the responses of the batch become, in id order
SlotsOf(sl) == [i \in 1..Len(sl.results) |-> BatchSlot(SortById(sl.results)[i])]

\* a response middleware threw
MiddlewareThrew(sl) == sl.answer.t = "data" /\ sl.failedAt = "respmw"

\* all response middleware returned and some element could not be normalized
ElementFailed(sl) ==
  /\ sl.answer.t = "data"
  /\ sl.failedAt # "respmw"
  /\ FirstThrow(SlotsOf(sl)) # Undefined

\* the failure: what the middleware threw, or what normalization threw first
FailureOf(sl) ==
  IF MiddlewareThrew(sl) THEN MwThrown(responseMiddleware[sl.mwi])
  ELSE FirstThrow(SlotsOf(sl)).v

\* C28 as stated: when a response middleware throws or the normalization of
\* an element fails in a transmitted batch of n calls, batchRpc resolves with
\* n slots {error: m}, m the message of the failure
C28_FailureMessageInEverySlot ==
  \A s \in Settled("batch") :
    LET sl == slots[s]
    IN (MiddlewareThrew(sl) \/ ElementFailed(sl)) =>
         /\ sl.outcome.t = "resolved"
         /\ Len(Output(sl)) = Len(sl.calls)
         /\ \A i \in 1..Len(sl.calls) :
              Output(sl)[i] = Obj(<< <<"error", Get(FailureOf(sl), "message")>> >>)

\* C28 amended: the same with m the message of the failure when it has a
\* non-empty one, and the thrown value itself otherwise
C28_FailureInEverySlot ==
  \A s \in Settled("batch") :
    LET sl == slots[s]
    IN (MiddlewareThrew(sl) \/ ElementFailed(sl)) =>
         /\ sl.outcome.t = "resolved"
         /\ Len(Output(sl)) = Len(sl.calls)
         /\ \A i \in 1..Len(sl.calls) :
              Output(sl)[i] = Obj(<< <<"error", FailureText(FailureOf(sl))>> >>)

\* a batch of two calls got one response per envelope, one of them valid and
\* one whose result cannot be normalized
C28_Witness ==
  \E s \in Settled("batch") :
    /\ Len(slots[s].calls) = MaxBatch
    /\ OnePerEnvelope(slots[s])
    /\ ElementFailed(slots[s])
    /\ \E i \in 1..Len(slots[s].results) : ~IsThrow(SlotsOf(slots[s])[i])
    /\ \A i \in 1..Len(slots[s].calls) : Get(Output(slots[s])[i], "error").t = "str"


----------------------------------------------------------------------------
(* subscription.ts: the Subscription class and its socket *)

Pending == [t |-> "pending"]

\* what JSON.parse(event.data) can be: an id (a number, a numeric string or
\* none) with a result or with a structured error
Messages ==
  LET ids == {Num(k) : k \in 0..(MaxRequests + 1)} \cup {Str(<<"1">>), Undefined}
  IN [id : ids, result : {Str(<<"0", "x", "1">>)}, error : {Undefined}]
       \cup [id : ids, result : {Undefined}, error : {RpcErrorObject}]

\* connect() while not connected: a socket is created
connect ==
  /\ ~isConnected
  /\ ws' = "connecting"
  /\ inFlight' = {}
  /\ UNCHANGED <<isConnected, wsIdCounter, pendingRequests, promises, settleCalls,
                 socketSent, lastMsg, msgTick, refused>>
  /\ UNCHANGED <<pvars, uvars, cvars>>

\* this.ws.onopen
onopen ==
  /\ ws = "connecting"
  /\ ws' = "open"
  /\ isConnected' = TRUE
  /\ UNCHANGED <<wsIdCounter, pendingRequests, promises, settleCalls, socketSent,
                 inFlight, lastMsg, msgTick, refused>>
  /\ UNCHANGED <<pvars, uvars, cvars>>

\* this.ws.onclose: the socket failed to open, or was closed by the node
onclose ==
  /\ ws \in {"connecting", "open"}
  /\ ws' = "closed"
  /\ isConnected' = FALSE
  /\ inFlight' = {}
  /\ UNCHANGED <<wsIdCounter, pendingRequests, promises, settleCalls, socketSent,
                 lastMsg, msgTick, refused>>
  /\ UNCHANGED <<pvars, uvars, cvars>>

\* disconnect()
disconnect ==
  /\ ws # "none"
  /\ ws' = "none"
  /\ isConnected' = FALSE
  /\ inFlight' = {}
  /\ UNCHANGED <<wsIdCounter, pendingRequests, promises, settleCalls, socketSent,
                 lastMsg, msgTick, refused>>
  /\ UNCHANGED <<pvars, uvars, cvars>>

\* variant: the id counter is not advanced
sendRpcSameId(method) ==
  /\ IF ~isConnected
     THEN /\ refused < MaxRefused
          /\ refused' = refused + 1
          /\ UNCHANGED <<pendingRequests, promises, socketSent, inFlight>>
     ELSE /\ Len(socketSent) < MaxRequests
          /\ pendingRequests' = pendingRequests \cup {wsIdCounter}
          /\ promises' = [promises EXCEPT ![wsIdCounter] = Pending]
          /\ socketSent' = Append(socketSent, Envelope(wsIdCounter, method))
          /\ inFlight' = inFlight \cup {wsIdCounter}
          /\ UNCHANGED refused
  /\ UNCHANGED <<ws, isConnected, wsIdCounter, settleCalls, lastMsg, msgTick>>
  /\ UNCHANGED <<pvars, uvars, cvars>>

\* sendRpc(method)
sendRpc(method) ==
  /\ IF ~isConnected
     THEN /\ refused < MaxRefused
          /\ refused' = refused + 1
          /\ UNCHANGED <<wsIdCounter, pendingRequests, promises, socketSent, inFlight>>
     ELSE /\ wsIdCounter <= MaxRequests
          /\ wsIdCounter' = wsIdCounter + 1
          /\ pendingRequests' = pendingRequests \cup {wsIdCounter}
          /\ promises' = [promises EXCEPT ![wsIdCounter] = Pending]
          /\ socketSent' = Append(socketSent, Envelope(wsIdCounter, method))
          /\ inFlight' = inFlight \cup {wsIdCounter}
          /\ UNCHANGED refused
  /\ UNCHANGED <<ws, isConnected, settleCalls, lastMsg, msgTick>>
  /\ UNCHANGED <<pvars, uvars, cvars>>

\* msg.id && this.pendingRequests.has(msg.id)
HasPending(msg) ==
  Truthy(msg.id) /\ msg.id.t = "num" /\ msg.id.v \in pendingRequests

\* this.ws.onmessage with a message that parses
onmessage(msg) ==
  /\ ws = "open"
  /\ lastMsg' = msg
  /\ msgTick' = 1 - msgTick
  /\ inFlight' = IF msg.id.t = "num" THEN inFlight \ {msg.id.v} ELSE inFlight
  /\ IF HasPending(msg)
     THEN /\ pendingRequests' = pendingRequests \ {msg.id.v}
          /\ settleCalls' = [settleCalls EXCEPT ![msg.id.v] = @ + 1]
          /\ promises' = [promises EXCEPT ![msg.id.v] =
               IF @ # Pending THEN @
               ELSE IF Truthy(msg.error) THEN Rejected(msg.error)
               ELSE Resolved(msg.result)]
     ELSE UNCHANGED <<pendingRequests, settleCalls, promises>>
  /\ UNCHANGED <<ws, isConnected, wsIdCounter, socketSent, refused>>
  /\ UNCHANGED <<pvars, uvars, cvars>>

\* the node answers a request it has received
Reply(id) ==
  /\ id \in inFlight
  /\ \E msg \in Messages : msg.id = Num(id) /\ onmessage(msg)

SubscriptionNext ==
  \/ connect
  \/ onopen
  \/ onclose
  \/ disconnect
  \/ \E method \in {"eth_subscribe", "eth_unsubscribe"} : sendRpc(method)
  \/ \E msg \in Messages : onmessage(msg)
  \/ \E id \in RequestIds : Reply(id)

\* every instance as its constructor leaves it, then the Subscription is used
SubscriptionSpec == UtilsInit /\ [][SubscriptionNext]_vars

\* the node answers every request it has received, unless the socket closes
FairSubscriptionSpec ==
  SubscriptionSpec /\ \A id \in RequestIds : WF_vars(Reply(id))


----------------------------------------------------------------------------
(* Properties of the requests of a Subscription *)

\* the message carries the id of a pending entry
MatchesPending(msg) == msg.id.t = "num" /\ msg.id.v \in pendingRequests

\* how a message settles the request it answers
SettledBy(msg) ==
  IF Truthy(msg.error) THEN Rejected(msg.error) ELSE Resolved(msg.result)

\* an entry is pending exactly while its promise is, and no promise has been
\* settled twice
C25_Entries ==
  \A id \in RequestIds :
    /\ id \in pendingRequests <=> promises[id] = Pending
    /\ settleCalls[id] <= 1
    /\ settleCalls[id] = 1 <=> promises[id].t \in {"resolved", "rejected"}

\* a step of sendRpc on a connected Subscription takes the counter's value as
\* an id that no request had before, registers it alone and sends one payload
\* that carries it
C25_Send ==
  (isConnected /\ (wsIdCounter' # wsIdCounter \/ socketSent' # socketSent)) =>
    /\ promises[wsIdCounter] = Undefined
    /\ wsIdCounter \notin pendingRequests
    /\ wsIdCounter' = wsIdCounter + 1
    /\ pendingRequests' = pendingRequests \cup {wsIdCounter}
    /\ promises' = [promises EXCEPT ![wsIdCounter] = Pending]
    /\ socketSent' = Append(socketSent, socketSent'[Len(socketSent')])
    /\ IdOf(socketSent'[Len(socketSent')]) = wsIdCounter
    /\ settleCalls' = settleCalls

\* a message with the id of a pending entry settles that request, once, and
\* removes the entry; any other message settles nothing
C25_Receive ==
  msgTick' # msgTick =>
    IF MatchesPending(lastMsg')
    THEN /\ promises' = [promises EXCEPT ![lastMsg'.id.v] = SettledBy(lastMsg')]
         /\ settleCalls' = [settleCalls EXCEPT ![lastMsg'.id.v] = 1]
         /\ pendingRequests' = pendingRequests \ {lastMsg'.id.v}
    ELSE /\ promises' = promises
         /\ settleCalls' = settleCalls
         /\ pendingRequests' = pendingRequests

\* C25: on a connected Subscription every sendRpc allocates a fresh id from
\* the counter, registers exactly one pending entry under it and sends one
\* payload; a message whose id matches a pending entry settles that request
\* exactly once and removes the entry; a message that matches none settles
\* no request
C25_RequestsSettleOnce == []C25_Entries /\ [][C25_Send /\ C25_Receive]_vars

\* two requests were sent with the ids 1 and 2; one was resolved and one was
\* rejected by the messages that carried their ids, and a message that
\* matched no entry came last
C25_Witness ==
  /\ Len(socketSent) = 2
  /\ IdOf(socketSent[1]) = 1
  /\ IdOf(socketSent[2]) = 2
  /\ promises[1].t = "resolved"
  /\ promises[2].t = "rejected"
  /\ pendingRequests = {}
  /\ settleCalls = [id \in RequestIds |-> 1]
  /\ lastMsg.id = Num(MaxRequests + 1)


----------------------------------------------------------------------------
(* Progress of the requests of a Subscription *)

\* C29: when the node answers every request it has received, every promise
\* that sendRpc returned on a connected Subscription is eventually settled and
\* its entry leaves pendingRequests, also when the socket closes or
\* disconnect() is called before the response arrives
C29_EventuallySettled ==
  \A id \in RequestIds :
    (promises[id] = Pending) ~>
      (promises[id].t \in {"resolved", "rejected"} /\ id \notin pendingRequests)


----------------------------------------------------------------------------
(* Contract.deploy: one call, from the deployer check to the return *)

\* the limit of the receipt loop, for (let i = 0; i < 60; i++)
MaxPolls == 60

\* deployer arguments: an address string, an object with a sendTransaction
\* function, null, an object without one
Deployers == {"address", "signer", "null", "object"}

\* what getTransactionReceipt resolves to: null while the transaction is not
\* mined, a receipt of a transaction that created no contract, a receipt of
\* a deployment
Receipts ==
  { Null,
    Obj(<< <<"status", Str(<<"0","x","1">>)>> >>),
    Obj(<< <<"status", Str(<<"0","x","1">>)>>, <<"contractAddress", Null>> >>),
    Obj(<< <<"status", Str(<<"0","x","1">>)>>, <<"contractAddress", Str(Address)>> >>) }

\* what a failed sendTransaction or getTransactionReceipt rejects with
CallFailures ==
  { ErrorOf(<<"RPC request failed for method \"", "eth_getTransactionReceipt", "\": ",
              "Network error">>),
    Err("RpcError", <<"execution reverted">>, Num(3), Undefined) }

InvalidDeployerError == ErrorOf(<<"Invalid deployer: must be address string or ISigner">>)

NotMinedError ==
  ErrorOf(<<"Deployment transaction was not mined or contract address not found in receipt.">>)

\* receipt && receipt.contractAddress
HasContractAddress(r) == Truthy(r) /\ Truthy(Get(r, "contractAddress"))

\* deploy up to its first await: the constructor arguments are encoded (the
\* encoder may throw), then the deployer decides who sends the transaction
deploy(kind, encodes) ==
  /\ dpc = "idle"
  /\ deployer' = kind
  /\ IF ~encodes
     THEN /\ deployed' = Rejected(ErrorOf(<<"types/values length mismatch">>))
          /\ dpc' = "done"
          /\ txSent' = txSent
     ELSE IF kind \in {"address", "signer"}
     THEN /\ txSent' = txSent + 1
          /\ dpc' = "sending"
          /\ deployed' = deployed
     ELSE /\ deployed' = Rejected(InvalidDeployerError)
          /\ dpc' = "done"
          /\ txSent' = txSent
  /\ UNCHANGED <<polls, receiptCalls, receipt>>
  /\ UNCHANGED <<pvars, uvars, wvars>>

\* variant: the loop test is i <= 60
setTimeoutFiresOnceMore ==
  /\ dpc = "sleeping"
  /\ polls' = polls + 1
  /\ IF polls + 1 <= MaxPolls
     THEN /\ receiptCalls' = receiptCalls + 1
          /\ dpc' = "polling"
          /\ deployed' = deployed
     ELSE /\ deployed' = Rejected(NotMinedError)
          /\ dpc' = "done"
          /\ receiptCalls' = receiptCalls
  /\ UNCHANGED <<deployer, txSent, receipt>>
  /\ UNCHANGED <<pvars, uvars, wvars>>

\* the sendTransaction call settles: with the transaction hash, and the loop
\* is entered with i = 0 and makes its first getTransactionReceipt call, or
\* with an error, which deploy does not catch
sendTransactionSettles(answer) ==
  /\ dpc = "sending"
  /\ IF answer.t = "str"
     THEN /\ polls' = 0
          /\ receiptCalls' = receiptCalls + 1
          /\ dpc' = "polling"
          /\ deployed' = deployed
     ELSE /\ deployed' = Rejected(answer)
          /\ dpc' = "done"
          /\ UNCHANGED <<polls, receiptCalls>>
  /\ UNCHANGED <<deployer, txSent, receipt>>
  /\ UNCHANGED <<pvars, uvars, wvars>>

\* the getTransactionReceipt call settles: a receipt with a contractAddress
\* leaves the loop and is returned, any other value starts the one second
\* timer, an error is not caught
getTransactionReceiptSettles(answer) ==
  /\ dpc = "polling"
  /\ IF answer.t = "err"
     THEN /\ deployed' = Rejected(answer)
          /\ dpc' = "done"
          /\ receipt' = receipt
     ELSE /\ receipt' = answer
          /\ IF HasContractAddress(answer)
             THEN /\ deployed' =
                       Resolved(Obj(<< <<"contractAddress", Get(answer, "contractAddress")>>,
                                       <<"txHash", Str(<<"0","x","a","b">>)>>,
                                       <<"receipt", answer>> >>))
                  /\ dpc' = "done"
             ELSE /\ dpc' = "sleeping"
                  /\ deployed' = deployed
  /\ UNCHANGED <<deployer, polls, txSent, receiptCalls>>
  /\ UNCHANGED <<pvars, uvars, wvars>>

\* the timer fires: i++, then the loop test; after the loop the receipt
\* without a contractAddress makes deploy throw
setTimeoutFires ==
  /\ dpc = "sleeping"
  /\ polls' = polls + 1
  /\ IF polls + 1 < MaxPolls
     THEN /\ receiptCalls' = receiptCalls + 1
          /\ dpc' = "polling"
          /\ deployed' = deployed
     ELSE /\ deployed' = Rejected(NotMinedError)
          /\ dpc' = "done"
          /\ receiptCalls' = receiptCalls
  /\ UNCHANGED <<deployer, txSent, receipt>>
  /\ UNCHANGED <<pvars, uvars, wvars>>

DeployNext ==
  \/ \E kind \in Deployers, encodes \in BOOLEAN : deploy(kind, encodes)
  \/ \E answer \in {Str(<<"0","x","a","b">>)} \cup CallFailures : sendTransactionSettles(answer)
  \/ \E answer \in Receipts \cup CallFailures : getTransactionReceiptSettles(answer)
  \/ setTimeoutFires

\* every awaited call settles and every timer fires
DeploySpec == UtilsInit /\ [][DeployNext]_vars /\ WF_vars(DeployNext)


----------------------------------------------------------------------------
(* C26 *)

\* the deploy call has settled by returning the contract address of the
\* receipt it holds
Returned ==
  /\ deployed.t = "resolved"
  /\ HasContractAddress(receipt)
  /\ Get(deployed.v, "contractAddress") = Get(receipt, "contractAddress")
  /\ Get(deployed.v, "receipt") = receipt

\* at most 60 getTransactionReceipt calls, and an invalid deployer fails
\* with nothing sent
C26_Bounded ==
  /\ receiptCalls <= MaxPolls
  /\ polls <= MaxPolls
  /\ (dpc # "idle" /\ deployer \in {"null", "object"}) =>
        /\ dpc = "done"
        /\ deployed.t = "rejected"
        /\ txSent = 0
        /\ receiptCalls = 0
  /\ receiptCalls > 0 => txSent = 1
  /\ dpc = "sleeping" => ~HasContractAddress(receipt)

\* a receipt with a contractAddress ends the call at once, with that address
C26_ReturnsAtOnce ==
  (dpc = "polling" /\ HasContractAddress(receipt')) =>
     (dpc' = "done" /\ Returned' /\ receiptCalls' = receiptCalls)

====
